---- MODULE Spec2Model ----
(***************************************************************************)
(* AgeGate: the popup handshake of launchAgeGate (src/agegate.js), its     *)
(* policy helpers (src/internal/policy.js) and its token decoding          *)
(* (src/internal/token.js), as a state machine.                            *)
(*                                                                         *)
(* One behaviour is one launchAgeGate call in one page.  The host (the     *)
(* browser) delivers message events, timer callbacks and fetch results as  *)
(* separate tasks; everything a task runs synchronously, together with the *)
(* microtasks it leaves behind, is one action.  The exported functions of   *)
(* policy.js and token.js are also called on their own, on arguments the   *)
(* handshake never passes them (fn, arg, ret).  A second launchAgeGate     *)
(* call of the same page, made while the first awaits its message, is the  *)
(* record peer.                                                            *)
(***************************************************************************)
EXTENDS Integers, Sequences, FiniteSets, TLC

VARIABLES
  cfg,                 \* the config object passed to launchAgeGate
  lpc,                 \* where the launchAgeGate call ended
  agegateway_session,  \* const agegateway_session
  include,             \* const include
  childUrl,            \* const url, as handed to window.open / location.assign
  popup,               \* let popup
  done,                \* let done
  processing,          \* let processing
  aborted,             \* ac.signal.aborted
  pollId,              \* let pollId
  timeoutId,           \* let timeoutId
  listening,           \* handler is registered for window 'message' events
  activeTimers,        \* the host's list of active timers (handles)
  popupClosed,         \* popup.closed
  location,            \* where the opener page is
  activations,         \* the handler invocations that passed the guards
  fetches,             \* the requests handed to fetch
  calls,               \* the invocations of onSuccess / onFailure
  escaped,             \* exceptions that left the controller's own code
  warned,              \* console.warn was called by launchAgeGate
  lastReturn,          \* where the handler last returned without accepting
  fn,                  \* the exported function called on its own, "none" before
  arg,                 \* its arguments
  ret,                 \* what it returned or threw
  peer                 \* a second launchAgeGate call of the page: its closure

vars == << cfg, lpc, agegateway_session, include, childUrl, popup, done,
           processing, aborted, pollId, timeoutId, listening, activeTimers,
           popupClosed, location, activations, fetches, calls, escaped, warned,
           lastReturn, fn, arg, ret, peer >>

\* What the first launch does not touch: the call of an exported function on
\* its own, and the closure of the second launch.
callVars == << fn, arg, ret, peer >>

\* The variables of the handshake, but lastReturn.
ctlVars == << cfg, lpc, agegateway_session, include, childUrl, popup, done,
              processing, aborted, pollId, timeoutId, listening, activeTimers,
              popupClosed, location, activations, fetches, calls, escaped, warned >>

(***************************************************************************)
(* JavaScript values.  A string is the sequence of its characters.         *)
(***************************************************************************)
Undefined == [t |-> "undefined", v |-> <<>>, n |-> 0]
Null      == [t |-> "null", v |-> <<>>, n |-> 0]
Str(s)    == [t |-> "string", v |-> s, n |-> 0]
Num(k)    == [t |-> "number", v |-> <<>>, n |-> k]
NaN       == [t |-> "number", v |-> <<"N","a","N">>, n |-> 0]
Infinity  == [t |-> "number", v |-> <<"I","n","f">>, n |-> 0]
Obj(id)   == [t |-> "object", v |-> id, n |-> 0]

\* typeof x
typeof(x) == IF x.t = "null" THEN "object" ELSE x.t

\* the truthiness of x, as `!x` and `if (x)` read it
Truthy(x) ==
  CASE x.t \in {"undefined", "null"} -> FALSE
    [] x.t = "string" -> x.v # <<>>
    [] x.t = "number" -> x.v = <<"I","n","f">> \/ (x.v = <<>> /\ x.n # 0)
    [] OTHER -> TRUE

\* Number.isFinite(x)
NumberIsFinite(x) == x.t = "number" /\ x.v = <<>>

(***************************************************************************)
(* Strings                                                                 *)
(***************************************************************************)
WhiteSpace == {" ", "\t", "\n"}

RECURSIVE TrimStart(_)
TrimStart(s) ==
  IF s # <<>> /\ Head(s) \in WhiteSpace THEN TrimStart(Tail(s)) ELSE s

RECURSIVE TrimEnd(_)
TrimEnd(s) ==
  IF s # <<>> /\ s[Len(s)] \in WhiteSpace
    THEN TrimEnd(SubSeq(s, 1, Len(s) - 1))
    ELSE s

\* String.prototype.trim
Trim(s) == TrimEnd(TrimStart(s))

\* out.includes(s)
Includes(out, s) == \E i \in 1..Len(out) : out[i] = s

Repeat(c, k) == [i \in 1..k |-> c]

HexLower == <<"0","1","2","3","4","5","6","7","8","9","a","b","c","d","e","f">>
HexDigits == {HexLower[i] : i \in 1..16} \cup {"A","B","C","D","E","F"}

(***************************************************************************)
(* src/internal/policy.js                                                  *)
(***************************************************************************)
maxSessionLen == 64
maxIncludeItems == 8
maxIncludeItemLen == 32

\* UUID_RE.test(v): /^[0-9a-f]{8}-[0-9a-f]{4}-[1-5][0-9a-f]{3}-[89ab][0-9a-f]{3}-[0-9a-f]{12}$/i
isUuid(s) ==
  /\ Len(s) = 36
  /\ \A i \in 1..36 :
       CASE i \in {9, 14, 19, 24} -> s[i] = "-"
         [] i = 15 -> s[i] \in {"1","2","3","4","5"}
         [] i = 20 -> s[i] \in {"8","9","a","b","A","B"}
         [] OTHER -> s[i] \in HexDigits

\* x.toString(16).padStart(2, '0')
ToHex2(x) == << HexLower[(x \div 16) + 1], HexLower[(x % 16) + 1] >>

RECURSIVE HexOfBytes(_)
HexOfBytes(b) == IF b = <<>> THEN <<>> ELSE ToHex2(Head(b)) \o HexOfBytes(Tail(b))

\* The host's crypto object: which of its functions exist, and what they yield.
UuidR == <<"9","b","2","f","6","c","1","e","-","7","a","3","4","-","4","f","0","d","-","8","c","5","5","-","0","a","1","b","2","c","3","d","4","e","5","f">>
CryptoKinds == {"randomUUID", "getRandomValues", "none"}
RandomBytes == { [i \in 1..16 |-> 255] }
\* A host with getRandomValues only, which yields other bytes.
OtherRandomBytes == { [i \in 1..16 |-> 0], [i \in 1..16 |-> (37 * i) % 256] }
CryptoHosts == CryptoKinds \cup {"getRandomValues (other host)"}

\* The bytes to text, without setting the version and variant bits.
FormatUuidRawBytes(b0) ==
  LET hex == HexOfBytes(b0)
  IN  SubSeq(hex, 1, 8) \o <<"-">> \o SubSeq(hex, 9, 12) \o <<"-">>
        \o SubSeq(hex, 13, 16) \o <<"-">> \o SubSeq(hex, 17, 20) \o <<"-">>
        \o SubSeq(hex, 21, 32)

\* The RFC4122 bytes to text, with the version and variant bits set.
FormatUuid(b0) ==
  LET b == [b0 EXCEPT ![7] = ((b0[7] % 16) + 64), ![9] = ((b0[9] % 64) + 128)]
      hex == HexOfBytes(b)
  IN  SubSeq(hex, 1, 8) \o <<"-">> \o SubSeq(hex, 9, 12) \o <<"-">>
        \o SubSeq(hex, 13, 16) \o <<"-">> \o SubSeq(hex, 17, 20) \o <<"-">>
        \o SubSeq(hex, 21, 32)

\* randomUuid falling back to an identifier that is no UUID instead of throwing
randomUuidWithoutCrypto(crypto) ==
  CASE crypto = "randomUUID" -> { [threw |-> FALSE, val |-> UuidR] }
    [] crypto = "getRandomValues" ->
         { [threw |-> FALSE, val |-> FormatUuid(b)] : b \in RandomBytes }
    [] crypto = "getRandomValues (other host)" ->
         { [threw |-> FALSE, val |-> FormatUuid(b)] : b \in OtherRandomBytes }
    [] OTHER -> { [threw |-> FALSE, val |-> <<"0",".","4","2">>] }

\* randomUuid(): the set of its outcomes on a host with the given crypto.
randomUuid(crypto) ==
  CASE crypto = "randomUUID" -> { [threw |-> FALSE, val |-> UuidR] }
    [] crypto = "getRandomValues" ->
         { [threw |-> FALSE, val |-> FormatUuid(b)] : b \in RandomBytes }
    [] crypto = "getRandomValues (other host)" ->
         { [threw |-> FALSE, val |-> FormatUuid(b)] : b \in OtherRandomBytes }
    [] OTHER -> { [threw |-> TRUE, val |-> <<>>] }

\* normalizeSession returning its argument as given, blanks included
normalizeSessionUntrimmed(v, crypto) ==
  IF typeof(v) # "string" THEN randomUuid(crypto)
  ELSE LET s == Trim(v.v)
       IN  IF Len(s) = 0 \/ Len(s) > maxSessionLen THEN randomUuid(crypto)
           ELSE IF ~isUuid(s) THEN randomUuid(crypto)
           ELSE { [threw |-> FALSE, val |-> v.v] }

\* normalizeSession(v): the set of its outcomes.
normalizeSession(v, crypto) ==
  IF typeof(v) # "string" THEN randomUuid(crypto)
  ELSE LET s == Trim(v.v)
       IN  IF Len(s) = 0 \/ Len(s) > maxSessionLen THEN randomUuid(crypto)
           ELSE IF ~isUuid(s) THEN randomUuid(crypto)
           ELSE { [threw |-> FALSE, val |-> s] }

\* An array is [isArray |-> TRUE, items |-> <<...>>]; sanitizeInclude yields
\* [defined |-> FALSE, ...] for undefined.
NotArray == [isArray |-> FALSE, items |-> <<>>]
Array(items) == [isArray |-> TRUE, items |-> items]
NoInclude == [defined |-> FALSE, items |-> <<>>]

\* the loop without `if (!out.includes(s))`
RECURSIVE SanitizeLoopKeepingDuplicates(_, _)
SanitizeLoopKeepingDuplicates(items, out) ==
  IF items = <<>> THEN out
  ELSE IF Len(out) >= maxIncludeItems THEN out
  ELSE LET item == Head(items)
           s == Trim(item.v)
       IN  IF typeof(item) # "string" THEN SanitizeLoopKeepingDuplicates(Tail(items), out)
           ELSE IF Len(s) = 0 \/ Len(s) > maxIncludeItemLen
             THEN SanitizeLoopKeepingDuplicates(Tail(items), out)
           ELSE SanitizeLoopKeepingDuplicates(Tail(items), Append(out, s))

\* the loop removing one white space character at the start of an item only
RECURSIVE SanitizeLoopTrimOnce(_, _)
SanitizeLoopTrimOnce(items, out) ==
  IF items = <<>> THEN out
  ELSE IF Len(out) >= maxIncludeItems THEN out
  ELSE LET item == Head(items)
           s == IF Len(item.v) > 0 /\ item.v[1] \in WhiteSpace THEN Tail(item.v)
                ELSE item.v
       IN  IF typeof(item) # "string" THEN SanitizeLoopTrimOnce(Tail(items), out)
           ELSE IF Len(s) = 0 \/ Len(s) > maxIncludeItemLen
             THEN SanitizeLoopTrimOnce(Tail(items), out)
           ELSE IF ~Includes(out, s) THEN SanitizeLoopTrimOnce(Tail(items), Append(out, s))
           ELSE SanitizeLoopTrimOnce(Tail(items), out)

RECURSIVE SanitizeLoop(_, _)
SanitizeLoop(items, out) ==
  IF items = <<>> THEN out
  ELSE IF Len(out) >= maxIncludeItems THEN out
  ELSE LET item == Head(items)
           s == Trim(item.v)
       IN  IF typeof(item) # "string" THEN SanitizeLoop(Tail(items), out)
           ELSE IF Len(s) = 0 \/ Len(s) > maxIncludeItemLen
             THEN SanitizeLoop(Tail(items), out)
           ELSE IF ~Includes(out, s) THEN SanitizeLoop(Tail(items), Append(out, s))
           ELSE SanitizeLoop(Tail(items), out)

\* sanitizeInclude(v), v an array of JavaScript values or not an array
sanitizeInclude(v) ==
  IF ~v.isArray THEN NoInclude
  ELSE LET out == SanitizeLoop(v.items, <<>>)
       IN  IF Len(out) > 0 THEN [defined |-> TRUE, items |-> out] ELSE NoInclude

\* resolveBackendVerifyUrl: URL strings are kept parsed.  A string that names a
\* URL is [kind |-> "abs", scheme, host, path]; a relative reference is
\* [kind |-> "rel", path]; "invalid" is a string new URL() rejects, "empty" the
\* empty string and "nonstring" a value that is no string.
AbsUrl(scheme, host, path) == [kind |-> "abs", scheme |-> scheme, host |-> host, path |-> path]
RelUrl(path) == [kind |-> "rel", scheme |-> "", host |-> "", path |-> path]
InvalidUrl == [kind |-> "invalid", scheme |-> "", host |-> "", path |-> ""]
EmptyUrl == [kind |-> "empty", scheme |-> "", host |-> "", path |-> ""]
NonStringUrl == [kind |-> "nonstring", scheme |-> "", host |-> "", path |-> ""]

\* new URL(raw, base): [threw, url]
NewURL(raw, base) ==
  CASE raw.kind = "abs" -> [threw |-> FALSE, url |-> raw]
    [] raw.kind \in {"rel", "empty"} /\ base.kind = "abs" ->
         [threw |-> FALSE,
          url |-> AbsUrl(base.scheme, base.host,
                         IF raw.kind = "empty" THEN base.path ELSE raw.path)]
    [] OTHER -> [threw |-> TRUE, url |-> InvalidUrl]

\* u.origin and u.protocol
OriginOf(u) == << u.scheme, u.host >>
ProtocolOf(u) == u.scheme

Err(msg) == [isError |-> TRUE, msg |-> msg, status |-> 0]
NoErr == [isError |-> FALSE, msg |-> "", status |-> 0]
Throw(msg) == [threw |-> TRUE, err |-> Err(msg), url |-> InvalidUrl]

\* an allowlist that lets every origin pass once it has an entry
AllowListedNonEmpty(allowedOrigins, u) == Len(allowedOrigins) > 0

\* allowedOrigins.some(...)
AllowListed(allowedOrigins, u) ==
  \E i \in 1..Len(allowedOrigins) :
    LET o == allowedOrigins[i]
    IN  /\ o.kind # "nonstring"
        /\ ~NewURL(o, InvalidUrl).threw
        /\ OriginOf(NewURL(o, InvalidUrl).url) = OriginOf(u)

\* resolveBackendVerifyUrl testing the scheme of a cross-origin URL first
resolveBackendVerifyUrlSchemeFirst(raw, opts) ==
  IF opts.pageHref.kind \in {"nonstring", "empty"} THEN Throw("pageHref required")
  ELSE IF opts.pageOrigin = <<>> THEN Throw("pageOrigin required")
  ELSE IF NewURL(raw, opts.pageHref).threw
    THEN Throw("backendVerifyUrl must be a valid URL or relative path")
  ELSE
    LET u == NewURL(raw, opts.pageHref).url
        sameOrigin == OriginOf(u) = opts.pageOrigin
    IN  IF ~sameOrigin /\ ProtocolOf(u) # "https:"
          THEN Throw("backendVerifyUrl must be https")
        ELSE IF ~sameOrigin /\ ~opts.allowCrossOrigin
          THEN Throw("backendVerifyUrl must be same-origin by default")
        ELSE IF ~sameOrigin /\ ~AllowListed(opts.allowedOrigins, u)
          THEN Throw("backendVerifyUrl origin not in backendVerifyAllowedOrigins")
        ELSE IF /\ sameOrigin
                /\ ProtocolOf(u) # "https:"
                /\ ProtocolOf(u) # ProtocolOf(NewURL(opts.pageHref, InvalidUrl).url)
          THEN Throw("backendVerifyUrl protocol mismatch")
        ELSE [threw |-> FALSE, err |-> NoErr, url |-> u]

\* resolveBackendVerifyUrl(raw, opts): [threw, err, url]
resolveBackendVerifyUrl(raw, opts) ==
  IF opts.pageHref.kind \in {"nonstring", "empty"} THEN Throw("pageHref required")
  ELSE IF opts.pageOrigin = <<>> THEN Throw("pageOrigin required")
  ELSE IF NewURL(raw, opts.pageHref).threw
    THEN Throw("backendVerifyUrl must be a valid URL or relative path")
  ELSE
    LET u == NewURL(raw, opts.pageHref).url
        sameOrigin == OriginOf(u) = opts.pageOrigin
    IN  IF ~sameOrigin /\ ~opts.allowCrossOrigin
          THEN Throw("backendVerifyUrl must be same-origin by default")
        ELSE IF ~sameOrigin /\ ~AllowListed(opts.allowedOrigins, u)
          THEN Throw("backendVerifyUrl origin not in backendVerifyAllowedOrigins")
        ELSE IF ~sameOrigin /\ ProtocolOf(u) # "https:"
          THEN Throw("backendVerifyUrl must be https")
        ELSE IF /\ sameOrigin
                /\ ProtocolOf(u) # "https:"
                /\ ProtocolOf(u) # ProtocolOf(NewURL(opts.pageHref, InvalidUrl).url)
          THEN Throw("backendVerifyUrl protocol mismatch")
        ELSE [threw |-> FALSE, err |-> NoErr, url |-> u]

(***************************************************************************)
(* src/internal/token.js                                                   *)
(***************************************************************************)
maxTokenB64urlChars == 64000
maxGzipBytes == 64000
maxInflatedChars == 512000
DEFAULT_LIMITS ==
  [maxTokenB64urlChars |-> maxTokenB64urlChars, maxGzipBytes |-> maxGzipBytes,
   maxInflatedChars |-> maxInflatedChars]

\* The printable ASCII characters, code 32 first (three of them by name).
Ascii == <<" ","!","QUOTE","#","$","%","&","'","(",")","*","+",",","-",".","/","0","1","2","3","4","5","6","7","8","9",":",";","<","=",">","?","@","A","B","C","D","E","F","G","H","I","J","K","L","M","N","O","P","Q","R","S","T","U","V","W","X","Y","Z","[","BACKSLASH","]","^","_","BACKTICK","a","b","c","d","e","f","g","h","i","j","k","l","m","n","o","p","q","r","s","t","u","v","w","x","y","z","{","|","}","~">>
Chr(code) == Ascii[code - 31]
Ord(c) == CHOOSE code \in 32..126 : Ascii[code - 31] = c

B64Alphabet == <<"A","B","C","D","E","F","G","H","I","J","K","L","M","N","O","P","Q","R","S","T","U","V","W","X","Y","Z","a","b","c","d","e","f","g","h","i","j","k","l","m","n","o","p","q","r","s","t","u","v","w","x","y","z","0","1","2","3","4","5","6","7","8","9","+","/">>
B64Chars == {B64Alphabet[i] : i \in 1..64}
B64Val(c) == (CHOOSE i \in 1..64 : B64Alphabet[i] = c) - 1

\* A decoding result: [threw, msg, val]
Ok(val) == [threw |-> FALSE, msg |-> "", val |-> val]
Fail(msg) == [threw |-> TRUE, msg |-> msg, val |-> <<>>]

\* the bytes of a run of base64 digits (forgiving-base64 decode, after padding
\* was removed): four digits give three bytes, three give two, two give one.
\* Byte k is made of two neighbouring digits of its group of four.
B64Groups(s) ==
  [k \in 1..((3 * Len(s)) \div 4) |->
     LET g == 4 * ((k - 1) \div 3)
         p == (k - 1) % 3
     IN  CASE p = 0 -> (B64Val(s[g + 1]) * 4) + (B64Val(s[g + 2]) \div 16)
           [] p = 1 -> ((B64Val(s[g + 2]) % 16) * 16) + (B64Val(s[g + 3]) \div 4)
           [] p = 2 -> ((B64Val(s[g + 3]) % 4) * 64) + B64Val(s[g + 4])]

\* ASCII whitespace, which atob removes before it decodes
AsciiWhitespace == {" ", "\t", "\n", "\f", "\r"}
StripWhitespace(s) ==
  LET Kept(c) == c \notin AsciiWhitespace
  IN  SelectSeq(s, Kept)

\* a decoder that gives one byte for each digit
atobUnpacked(b64) ==
  LET data == StripWhitespace(b64)
      n == Len(data)
      body == IF n % 4 = 0 /\ n >= 2 /\ data[n] = "=" /\ data[n - 1] = "="
                THEN SubSeq(data, 1, n - 2)
              ELSE IF n % 4 = 0 /\ n >= 1 /\ data[n] = "="
                THEN SubSeq(data, 1, n - 1)
              ELSE data
  IN  IF Len(body) % 4 = 1 THEN Fail("InvalidCharacterError")
      ELSE IF \E i \in 1..Len(body) : body[i] \notin B64Chars
        THEN Fail("InvalidCharacterError")
      ELSE Ok([i \in 1..Len(body) |-> B64Val(body[i])])

\* globalThis.atob(b64): the forgiving-base64 decode
atob(b64) ==
  LET data == StripWhitespace(b64)
      n == Len(data)
      body == IF n % 4 = 0 /\ n >= 2 /\ data[n] = "=" /\ data[n - 1] = "="
                THEN SubSeq(data, 1, n - 2)
              ELSE IF n % 4 = 0 /\ n >= 1 /\ data[n] = "="
                THEN SubSeq(data, 1, n - 1)
              ELSE data
  IN  IF Len(body) % 4 = 1 THEN Fail("InvalidCharacterError")
      ELSE IF \E i \in 1..Len(body) : body[i] \notin B64Chars
        THEN Fail("InvalidCharacterError")
      ELSE Ok(B64Groups(body))

\* base64ToBytes(b64), on a host with atob
base64ToBytes(b64) == atob(b64)

\* the token handed to the decoder without translating its alphabet
ToB64Untranslated(s) == s

\* b64url.replace(/-/g, '+').replace(/_/g, '/')
ToB64(s) == [i \in 1..Len(s) |-> IF s[i] = "-" THEN "+" ELSE IF s[i] = "_" THEN "/" ELSE s[i]]

\* b64urlToBytes refusing a token of exactly the character ceiling
b64urlToBytesBelowCeiling(b64url, lim) ==
  IF typeof(b64url) # "string" THEN Fail("token must be a string")
  ELSE IF Len(b64url.v) = 0 THEN Fail("token must be non-empty")
  ELSE IF Len(b64url.v) >= lim.maxTokenB64urlChars THEN Fail("token too large")
  ELSE
    LET b64 == ToB64(b64url.v)
        pad == Len(b64) % 4
        padded == IF pad = 2 THEN b64 \o <<"=", "=">>
                  ELSE IF pad = 3 THEN b64 \o <<"=">> ELSE b64
    IN  IF pad = 1 THEN Fail("invalid base64url length")
        ELSE LET out == base64ToBytes(padded)
             IN  IF out.threw THEN Fail("invalid base64url")
                 ELSE IF Len(out.val) > lim.maxGzipBytes
                   THEN Fail("compressed token too large")
                 ELSE out

\* b64urlToBytes(b64url, limits)
b64urlToBytes(b64url, lim) ==
  IF typeof(b64url) # "string" THEN Fail("token must be a string")
  ELSE IF Len(b64url.v) = 0 THEN Fail("token must be non-empty")
  ELSE IF Len(b64url.v) > lim.maxTokenB64urlChars THEN Fail("token too large")
  ELSE
    LET b64 == ToB64(b64url.v)
        pad == Len(b64) % 4
        padded == IF pad = 2 THEN b64 \o <<"=", "=">>
                  ELSE IF pad = 3 THEN b64 \o <<"=">> ELSE b64
    IN  IF pad = 1 THEN Fail("invalid base64url length")
        ELSE LET out == base64ToBytes(padded)
             IN  IF out.threw THEN Fail("invalid base64url")
                 ELSE IF Len(out.val) > lim.maxGzipBytes
                   THEN Fail("compressed token too large")
                 ELSE out

\* parseInt reading the digits a-f with the offset of A-F
HexValUpperOnly(c) ==
  CASE c \in {"A","B","C","D","E","F","a","b","c","d","e","f"} -> Ord(c) - 55
    [] OTHER -> Ord(c) - 48

\* Number.parseInt(hex.slice(i, i + 2), 16)
HexVal(c) ==
  CASE c \in {"A","B","C","D","E","F"} -> Ord(c) - 55
    [] c \in {"a","b","c","d","e","f"} -> Ord(c) - 87
    [] OTHER -> Ord(c) - 48

RECURSIVE HexPairs(_)
HexPairs(h) ==
  IF Len(h) < 2 THEN <<>>
  ELSE << (HexVal(h[1]) * 16) + HexVal(h[2]) >> \o HexPairs(SubSeq(h, 3, Len(h)))

\* The replacement character U+FFFD, which a byte that is no ASCII decodes to.
Replacement == "U+FFFD"

\* new TextDecoder().decode(bytes) / Buffer.toString('utf8'), on bytes that are
\* ASCII or not part of any well-formed sequence
Utf8Decode(bytes) ==
  [i \in 1..Len(bytes) |->
     IF bytes[i] \in 32..126 THEN Chr(bytes[i]) ELSE Replacement]

\* hexToUtf8String without its test of the characters
hexToUtf8StringUntested(hex, lim) ==
  IF typeof(hex) # "string" THEN Fail("hex must be a string")
  ELSE IF Len(hex.v) = 0 THEN Fail("hex must be non-empty")
  ELSE IF Len(hex.v) % 2 # 0 THEN Fail("invalid hex length")
  ELSE IF Len(hex.v) > lim.maxInflatedChars THEN Fail("inflated token too large")
  ELSE Ok(Utf8Decode(HexPairs(hex.v)))

\* hexToUtf8String(hex, limits)
hexToUtf8String(hex, lim) ==
  IF typeof(hex) # "string" THEN Fail("hex must be a string")
  ELSE IF Len(hex.v) = 0 THEN Fail("hex must be non-empty")
  ELSE IF Len(hex.v) % 2 # 0 THEN Fail("invalid hex length")
  ELSE IF \E i \in 1..Len(hex.v) : hex.v[i] \notin HexDigits
    THEN Fail("invalid hex characters")
  ELSE IF Len(hex.v) > lim.maxInflatedChars THEN Fail("inflated token too large")
  ELSE Ok(Utf8Decode(HexPairs(hex.v)))

(***************************************************************************)
(* pako (types/pako.d.ts): the compression library the token format uses.  *)
(* Its format is modelled as the two gzip magic bytes followed by runs     *)
(* <<count, character code>>; any other byte sequence fails to inflate.    *)
(***************************************************************************)
GzipMagic == << 31, 139 >>
MaxRun == 63

RECURSIVE RunLength(_, _)
RunLength(s, c) ==
  IF s # <<>> /\ Head(s) = c THEN 1 + RunLength(Tail(s), c) ELSE 0

RECURSIVE Deflate(_)
Deflate(s) ==
  IF s = <<>> THEN <<>>
  ELSE LET k0 == RunLength(s, Head(s))
           k == IF k0 > MaxRun THEN MaxRun ELSE k0
       IN  << k, Ord(Head(s)) >> \o Deflate(SubSeq(s, k + 1, Len(s)))

\* pako.gzip(data), data a string of printable ASCII
gzip(s) == GzipMagic \o Deflate(s)

\* The runs of b written out, the first half of the runs and then the second.
RECURSIVE Inflate(_)
Inflate(b) ==
  IF Len(b) < 2 THEN <<>>
  ELSE IF Len(b) < 4
    THEN Repeat(IF b[2] \in 32..126 THEN Chr(b[2]) ELSE Replacement, b[1])
  ELSE LET half == 2 * ((Len(b) \div 2) \div 2)
       IN  Inflate(SubSeq(b, 1, half)) \o Inflate(SubSeq(b, half + 1, Len(b)))

\* pako.ungzip(data, { to: 'string' })
ungzip(b) ==
  IF Len(b) < 2 \/ SubSeq(b, 1, 2) # GzipMagic THEN Fail("incorrect header check")
  ELSE IF Len(b) % 2 # 0 THEN Fail("unexpected end of file")
  ELSE Ok(Inflate(SubSeq(b, 3, Len(b))))

(***************************************************************************)
(* The encoders of the wire format (tests/token.test.js).                  *)
(***************************************************************************)
\* utf8ToHex(str), str printable ASCII
RECURSIVE utf8ToHex(_)
utf8ToHex(s) ==
  IF s = <<>> THEN <<>> ELSE ToHex2(Ord(Head(s))) \o utf8ToHex(Tail(s))

B64UrlDigit(k) ==
  LET c == B64Alphabet[k + 1]
  IN  IF c = "+" THEN "-" ELSE IF c = "/" THEN "_" ELSE c

\* bytesToB64url(bytes): base64, then + and / replaced and the padding dropped;
\* digit k is taken from the three bytes of its group, a missing byte being 0
bytesToB64url(b) ==
  LET ByteAtOrZero(i) == IF i <= Len(b) THEN b[i] ELSE 0
  IN  [k \in 1..(((4 * Len(b)) + 2) \div 3) |->
         LET g == 3 * ((k - 1) \div 4)
             p == (k - 1) % 4
         IN  B64UrlDigit(
               CASE p = 0 -> ByteAtOrZero(g + 1) \div 4
                 [] p = 1 -> ((ByteAtOrZero(g + 1) % 4) * 16) + (ByteAtOrZero(g + 2) \div 16)
                 [] p = 2 -> ((ByteAtOrZero(g + 2) % 16) * 4) + (ByteAtOrZero(g + 3) \div 64)
                 [] p = 3 -> ByteAtOrZero(g + 3) % 64)]

\* base64url(gzip(hex(jwt)))
EncodeToken(jwt) == bytesToB64url(gzip(utf8ToHex(jwt)))

(***************************************************************************)
(* src/agegate.js                                                          *)
(***************************************************************************)
CHILD_ORIGIN == "https://agecheck.me"
VERIFY_PAGE == "verify.html"

\* The page that calls launchAgeGate: window.location.
PageHref == AbsUrl("https:", "rp.example", "/path")
PageOrigin == OriginOf(PageHref)

\* The windows of the host: the one window.open returns, and another one.
PopupWin == "popupWin"
OtherWin == "otherWin"
NoWindow == "null"

\* asError(err, context)
asError(err, context) ==
  IF err.isError THEN err
  ELSE [isError |-> TRUE, msg |-> context, status |-> err.status]

NoPayload ==
  [include |-> NoInclude, agegateway_session |-> <<>>, authenticationResponse |-> Undefined]

\* What a callback can observe of the handshake when it is invoked.
Seen(s) ==
  [done |-> s.done, aborted |-> s.aborted, listening |-> s.listening,
   activeTimers |-> s.activeTimers, popupClosed |-> s.popupClosed,
   processing |-> s.processing]

\* An invocation of a callback.  args is [jwt, payload, backendResult, err].
Call(s, cb, args, throws) ==
  [cb |-> cb, jwt |-> args.jwt, payload |-> args.payload,
   backendResult |-> args.backendResult, err |-> args.err,
   seen |-> Seen(s), threw |-> throws]

FailureArgs(err) ==
  [jwt |-> <<>>, payload |-> NoPayload, backendResult |-> Undefined, err |-> err]
SuccessArgs(jwt, payload, backendResult) ==
  [jwt |-> jwt, payload |-> payload, backendResult |-> backendResult, err |-> NoErr]

\* safeCallback given no callback to call
safeCallbackWithoutCallback(s, cb, args) == [s EXCEPT !.threw = FALSE]

\* safeCallback without its try/catch: what the callback throws leaves the call.
safeCallbackUnguarded(s, cb, args) ==
  [s EXCEPT !.calls = Append(@, Call(s, cb, args, s.cbThrows)),
            !.threw = s.cbThrows]

\* safeCallback(cb, args): the callback runs; what it throws is caught and logged.
\* s.cbThrows says whether the caller's callback throws when it is invoked, and
\* s.threw whether an exception leaves the operation.
safeCallback(s, cb, args) ==
  [s EXCEPT !.calls = Append(@, Call(s, cb, args, s.cbThrows)),
            !.threw = FALSE]

\* cleanup without its clearTimeout
cleanupKeepsTimeout(s) ==
  [s EXCEPT !.listening = FALSE,
            !.activeTimers = @ \ (IF s.pollId # 0 THEN {s.pollId} ELSE {})]

\* cleanup without its removeEventListener
cleanupKeepsListener(s) ==
  [s EXCEPT !.activeTimers =
               (@ \ (IF s.pollId # 0 THEN {s.pollId} ELSE {}))
                  \ (IF s.timeoutId # 0 THEN {s.timeoutId} ELSE {})]

\* cleanup()
cleanup(s) ==
  [s EXCEPT !.listening = FALSE,
            !.activeTimers =
               (@ \ (IF s.pollId # 0 THEN {s.pollId} ELSE {}))
                  \ (IF s.timeoutId # 0 THEN {s.timeoutId} ELSE {})]

\* ac.abort()
abort(s) == [s EXCEPT !.aborted = TRUE]

\* popup?.close()
closePopup(s) ==
  IF s.popup = NoWindow THEN s ELSE [s EXCEPT !.popupClosed = TRUE]

\* finishFailure without its `if (done) return`
finishFailureUnguarded(s, err) ==
  safeCallback(closePopup(cleanup(abort([s EXCEPT !.done = TRUE]))), "onFailure",
               FailureArgs(asError(err, "agegate failure")))

\* finishFailure invoking the callback before it aborts, cleans up and closes
finishFailureCallbackFirst(s, err) ==
  IF s.done THEN s
  ELSE LET s1 == safeCallback([s EXCEPT !.done = TRUE], "onFailure",
                              FailureArgs(asError(err, "agegate failure")))
       IN  closePopup(cleanup(abort(s1)))

\* finishFailure that never sets done
finishFailureLeavesOpen(s, err) ==
  IF s.done THEN s
  ELSE safeCallback(closePopup(cleanup(abort(s))), "onFailure",
                    FailureArgs(asError(err, "agegate failure")))

\* finishFailure(err)
finishFailure(s, err) ==
  IF s.done THEN s
  ELSE LET s1 == [s EXCEPT !.done = TRUE]
           s2 == abort(s1)
           s3 == cleanup(s2)
           s4 == closePopup(s3)
       IN  safeCallback(s4, "onFailure", FailureArgs(asError(err, "agegate failure")))

\* finishSuccess without its `if (done) return`
finishSuccessUnguarded(s, jwt, payload, backendResult) ==
  safeCallback(closePopup(cleanup(abort([s EXCEPT !.done = TRUE]))), "onSuccess",
               SuccessArgs(jwt, payload, backendResult))

\* finishSuccess(jwt, payload, backendResult)
finishSuccess(s, jwt, payload, backendResult) ==
  IF s.done THEN s
  ELSE LET s1 == [s EXCEPT !.done = TRUE]
           s2 == abort(s1)
           s3 == cleanup(s2)
           s4 == closePopup(s3)
       IN  safeCallback(s4, "onSuccess", SuccessArgs(jwt, payload, backendResult))

CallbackError == Err("thrown by the callback")

\* An exception that nothing in the controller catches: it leaves the task.
Escape(s) ==
  IF s.threw THEN [s EXCEPT !.escaped = Append(@, CallbackError), !.threw = FALSE]
  ELSE s

\* handler: the finally block, and the end of the invocation
handlerFinally(s, i) ==
  Escape([s EXCEPT !.processing = FALSE, !.activations[i].pc = "done"])

\* a catch block that swallows the error
handlerCatchSilent(s, i, err) == handlerFinally(s, i)

\* handler: the catch block
handlerCatch(s, i, err) == handlerFinally(finishFailure(s, err), i)

\* handler: a finishSuccess call inside the try block
handlerSucceed(s, i, backendResult) ==
  LET a == s.activations[i]
      s1 == finishSuccess(s, a.jwt, a.payload, backendResult)
  IN  IF s1.threw THEN handlerCatch([s1 EXCEPT !.threw = FALSE], i, CallbackError)
      ELSE handlerFinally(s1, i)

\* The responses of the relying party's backend.  body is what res.json() gives:
\* the value the body encodes, or Undefined when the body does not parse.
JsonType == "application/json"
BackendJson == Obj(<<"backend result">>)
Responses ==
  { [ok |-> TRUE, status |-> 200, ct |-> JsonType, body |-> BackendJson],
    [ok |-> TRUE, status |-> 200, ct |-> JsonType, body |-> Undefined],
    [ok |-> TRUE, status |-> 200, ct |-> "text/html", body |-> Undefined],
    [ok |-> FALSE, status |-> 500, ct |-> JsonType, body |-> BackendJson] }
NoResponse == [ok |-> FALSE, status |-> 0, ct |-> "", body |-> Undefined]

BackendConfigured(c) == c.backendVerifyUrl.kind \in {"abs", "rel", "invalid"}

\* verifyWithBackend handing the configured URL to fetch as it is
verifyWithBackendStartUnresolved(s) ==
  [threw |-> FALSE, err |-> NoErr, url |-> s.cfg.backendVerifyUrl]

\* verifyWithBackend, up to its fetch call: [threw, err, url]
verifyWithBackendStart(s) ==
  resolveBackendVerifyUrl(s.cfg.backendVerifyUrl,
    [pageHref |-> PageHref, pageOrigin |-> PageOrigin,
     allowCrossOrigin |-> s.cfg.backendVerifyAllowCrossOrigin,
     allowedOrigins |-> s.cfg.backendVerifyAllowedOrigins])

\* a request whose body leaves the include list out
RequestWithoutInclude(url, jwt, payload) ==
  [url |-> url, method |-> "POST", credentials |-> "omit", cache |-> "no-store",
   jwt |-> jwt, payload |-> [payload EXCEPT !.include = NoInclude]]

\* The request handed to fetch.
Request(url, jwt, payload) ==
  [url |-> url, method |-> "POST", credentials |-> "omit", cache |-> "no-store",
   jwt |-> jwt, payload |-> payload]

\* The token decoding of the handler: [threw, msg, val], and the length of
\* the string pako.ungzip returned to it (0 when it was not reached or threw)
decodeToken(token) ==
  LET gz == b64urlToBytes(token, DEFAULT_LIMITS)
      hex == ungzip(gz.val)
      jwt == hexToUtf8String(Str(hex.val), DEFAULT_LIMITS)
      out == IF gz.threw THEN gz
             ELSE IF hex.threw THEN hex
             ELSE IF jwt.threw THEN jwt
             ELSE IF Len(jwt.val) = 0 THEN Fail("invalid jwt")
             ELSE jwt
  IN  [threw |-> out.threw, msg |-> out.msg, val |-> out.val,
       hexLength |-> IF gz.threw \/ hex.threw THEN 0 ELSE Len(hex.val)]

\* the guard without the processing flag
handlerBusyDoneOnly(s) == s.done

\* handler: the reentrancy guard
handlerBusy(s) == s.done \/ s.processing

\* the checks without the one of e.source
handlerAcceptsAnySource(s, e) ==
  /\ e.origin = CHILD_ORIGIN
  /\ Truthy(e.data) /\ typeof(e.data) = "object"
  /\ e.data.session = Str(s.agegateway_session)
  /\ typeof(e.data.token) = "string" /\ Len(e.data.token.v) # 0
  /\ Truthy(e.data.authenticationResponse)
  /\ typeof(e.data.authenticationResponse) = "object"

\* the checks without the one of the session
handlerAcceptsAnySession(s, e) ==
  /\ e.origin = CHILD_ORIGIN
  /\ e.source = s.popup
  /\ Truthy(e.data) /\ typeof(e.data) = "object"
  /\ typeof(e.data.token) = "string" /\ Len(e.data.token.v) # 0
  /\ Truthy(e.data.authenticationResponse)
  /\ typeof(e.data.authenticationResponse) = "object"

\* the checks without the one of the token's length
handlerAcceptsEmptyToken(s, e) ==
  /\ e.origin = CHILD_ORIGIN
  /\ e.source = s.popup
  /\ Truthy(e.data) /\ typeof(e.data) = "object"
  /\ e.data.session = Str(s.agegateway_session)
  /\ typeof(e.data.token) = "string"
  /\ Truthy(e.data.authenticationResponse)
  /\ typeof(e.data.authenticationResponse) = "object"

\* Whether the handler lets the event e past its checks of the event.
handlerAccepts(s, e) ==
  /\ e.origin = CHILD_ORIGIN
  /\ e.source = s.popup
  /\ Truthy(e.data) /\ typeof(e.data) = "object"
  /\ e.data.session = Str(s.agegateway_session)
  /\ typeof(e.data.token) = "string" /\ Len(e.data.token.v) # 0
  /\ Truthy(e.data.authenticationResponse)
  /\ typeof(e.data.authenticationResponse) = "object"

\* handler(e), up to its first suspension or its end; Try is its try block,
\* given what the decoding of the token gave
handler(s, e) ==
  IF handlerBusy(s) THEN [s EXCEPT !.lastReturn = "busy"]
  ELSE IF ~handlerAccepts(s, e) THEN [s EXCEPT !.lastReturn = "invalid"]
  ELSE
    LET i == Len(s.activations) + 1
        payload == [include |-> s.include,
                    agegateway_session |-> s.agegateway_session,
                    authenticationResponse |-> e.data.authenticationResponse]
        Try(jwt) ==
          LET s1 == [s EXCEPT !.processing = TRUE,
                              !.activations = Append(@,
                                 [e |-> e, pc |-> "decode", jwt |-> jwt.val,
                                  hexLength |-> jwt.hexLength,
                                  payload |-> payload, res |-> NoResponse])]
          IN  IF jwt.threw THEN handlerCatch(s1, i, Err(jwt.msg))
              ELSE IF BackendConfigured(s.cfg)
                THEN LET r == verifyWithBackendStart(s1)
                     IN  IF r.threw THEN handlerCatch(s1, i, r.err)
                         ELSE [s1 EXCEPT !.activations[i].pc = "fetch",
                                         !.fetches = Append(@, Request(r.url, jwt.val, payload))]
              ELSE handlerSucceed(s1, i, Null)
    IN  Try(decodeToken(e.data.token))

\* a fetch that is issued again when it was rejected
fetchSettledRetrying(s, i, out) ==
  IF out.ok THEN
    IF out.ct # JsonType
      THEN handlerSucceed([s EXCEPT !.activations[i].res = out], i, Null)
    ELSE [s EXCEPT !.activations[i].pc = "json", !.activations[i].res = out]
  ELSE IF out.status = 0
    THEN IF Len(s.fetches) < 2 /\ ~s.aborted
           THEN [s EXCEPT !.fetches = Append(@, @[Len(@)])]
           ELSE handlerCatch(s, i, Err("fetch rejected"))
  ELSE [s EXCEPT !.activations[i].pc = "text", !.activations[i].res = out]

\* handler, resumed when fetch settles: out is a response, or NoResponse when
\* the fetch was rejected
fetchSettled(s, i, out) ==
  IF out.ok THEN
    IF out.ct # JsonType
      THEN handlerSucceed([s EXCEPT !.activations[i].res = out], i, Null)
    ELSE [s EXCEPT !.activations[i].pc = "json", !.activations[i].res = out]
  ELSE IF out.status = 0 THEN handlerCatch(s, i, Err("fetch rejected"))
  ELSE [s EXCEPT !.activations[i].pc = "text", !.activations[i].res = out]

\* the failure of a non-success response without its status
textSettledWithoutStatus(s, i) ==
  handlerCatch(s, i,
    [isError |-> TRUE, msg |-> "backend verification failed", status |-> 0])

\* handler, resumed when res.text() settles; the text read is part of the message
textSettled(s, i) ==
  handlerCatch(s, i,
    [isError |-> TRUE, msg |-> "backend verification failed",
     status |-> s.activations[i].res.status])

\* handler, resumed when res.json() settles: with the value of the body, or
\* with a rejection that verifyWithBackend turns into null
jsonSettled(s, i) ==
  LET body == s.activations[i].res.body
  IN  handlerSucceed(s, i, IF body = Undefined THEN Null ELSE body)

\* The poll: the setInterval callback
pollTick(s) == IF s.popupClosed THEN cleanup(abort(s)) ELSE s

\* The setTimeout callback
timeoutFired(s) ==
  Escape(finishFailure(s, Err("Timed out waiting for age verification")))

\* makeVerifyUrl(session, include)
AsArray(inc) ==
  IF inc.defined THEN Array([i \in 1..Len(inc.items) |-> Str(inc.items[i])])
  ELSE NotArray

RECURSIVE Join(_)
Join(items) ==
  IF Len(items) = 0 THEN <<>>
  ELSE IF Len(items) = 1 THEN Head(items)
  ELSE Head(items) \o <<",">> \o Join(Tail(items))

\* makeVerifyUrl setting the include parameter whatever the list holds
makeVerifyUrlAlwaysInclude(session, inc0) ==
  LET inc == sanitizeInclude(AsArray(inc0))
  IN  [origin |-> CHILD_ORIGIN, page |-> VERIFY_PAGE,
       query |-> << <<"session", session>>, <<"autostart", <<"1">> >>,
                    <<"include", Join(inc.items)>> >>]

\* makeVerifyUrl(session, include): the URL, with its query as the list of
\* parameters URLSearchParams holds
makeVerifyUrl(session, inc0) ==
  LET inc == sanitizeInclude(AsArray(inc0))
  IN  [origin |-> CHILD_ORIGIN, page |-> VERIFY_PAGE,
       query |-> << <<"session", session>>, <<"autostart", <<"1">> >> >>
                 \o (IF inc.defined /\ Len(inc.items) > 0
                       THEN << <<"include", Join(inc.items)>> >> ELSE <<>>)]
NoUrl == [origin |-> "", page |-> "", query |-> <<>>]

\* the timer armed for every number
TimeoutArmedAnyNumber(c) == typeof(c.timeoutMs) = "number"

\* timeoutMs arms the timer
TimeoutArmed(c) ==
  typeof(c.timeoutMs) = "number" /\ NumberIsFinite(c.timeoutMs) /\ c.timeoutMs.n > 0

PollHandle == 1
TimeoutHandle == 2

(***************************************************************************)
(* The inputs: configurations, hosts and message events.                   *)
(***************************************************************************)
UuidA == <<"5","5","0","e","8","4","0","0","-","e","2","9","b","-","4","1","d","4","-","a","7","1","6","-","4","4","6","6","5","5","4","4","0","0","0","0">>
UuidB == <<"1","2","3","e","4","5","6","7","-","e","8","9","b","-","4","2","d","3","-","a","4","5","6","-","4","2","6","6","1","4","1","7","4","0","0","0">>

SessionInputs ==
  { Undefined, Str(UuidA), Str(<<" ">> \o UuidA \o <<" ">>),
    Str(<<"n","o","t","-","a","-","u","u","i","d">>) }

IncludeInputs ==
  { NotArray,
    Array(<< Str(<<" "," ","l","o","a"," "," ">>), Str(<<"l","o","a">>), Str(<<>>),
             Str(Repeat("x", maxIncludeItemLen + 1)),
             Str(<<"s","e","s","s","i","o","n">>), Num(123) >>) }

BackendInputs ==
  { [url |-> NonStringUrl, allowCrossOrigin |-> FALSE, allowedOrigins |-> <<>>],
    [url |-> EmptyUrl, allowCrossOrigin |-> FALSE, allowedOrigins |-> <<>>],
    [url |-> RelUrl("/api/verify"), allowCrossOrigin |-> FALSE, allowedOrigins |-> <<>>],
    [url |-> AbsUrl("https:", "api.example", "/verify"), allowCrossOrigin |-> FALSE,
     allowedOrigins |-> <<>>],
    [url |-> AbsUrl("https:", "api.example", "/verify"), allowCrossOrigin |-> TRUE,
     allowedOrigins |-> << AbsUrl("https:", "api.example", "") >>] }

TimeoutInputs == { Null, Num(120000), Num(0) }

Configs ==
  { [session |-> se, include |-> inc, backendVerifyUrl |-> b.url,
     backendVerifyAllowCrossOrigin |-> b.allowCrossOrigin,
     backendVerifyAllowedOrigins |-> b.allowedOrigins,
     timeoutMs |-> t, requireNoReferrer |-> rn, allowFullPageFallback |-> fb] :
       se \in SessionInputs, inc \in IncludeInputs, b \in BackendInputs,
       t \in TimeoutInputs, rn \in BOOLEAN, fb \in BOOLEAN }

\* The credential the issuer returns, and tokens that do and do not carry it.
Credential == <<"a",".","b",".","c">>
TokenInputs ==
  { Undefined, Num(7), Str(<<>>),
    Str(EncodeToken(Credential)),
    Str(<<"A","A","A","A","A">>),
    Str(<<"*","*">>),
    Str(bytesToB64url(<<1, 2, 3, 4>>)),
    Str(bytesToB64url(gzip(<<"z","z">>))),
    Str(bytesToB64url(gzip(<<"6","1","2">>))) }

AuthResponse == Obj(<<"authenticationResponse">>)

Data(token, session, auth) ==
  [t |-> "object", v |-> <<>>, n |-> 0, token |-> token, session |-> session,
   authenticationResponse |-> auth]
Primitive(x) ==
  [t |-> x.t, v |-> x.v, n |-> x.n, token |-> Undefined, session |-> Undefined,
   authenticationResponse |-> Undefined]

\* The data of the message events the window can receive while the session is
\* `session`: no objects, every token in an otherwise well-formed message, and
\* the credential's token with another session or authenticationResponse.
GoodToken == Str(EncodeToken(Credential))
DataInputs(session) ==
  { Primitive(Null), Primitive(Str(<<"h","i">>)) } \cup
  { Data(tk, Str(session), AuthResponse) : tk \in TokenInputs } \cup
  { Data(GoodToken, se, AuthResponse) :
      se \in { Str(UuidB), Str(session \o <<" ">>), Undefined } } \cup
  { Data(GoodToken, Str(session), au) : au \in { Null, Str(<<"o","k">>) } }

Messages(session) ==
  { [origin |-> o, source |-> w, data |-> d] :
      o \in { CHILD_ORIGIN, "https://evil.example" },
      w \in { PopupWin, OtherWin },
      d \in DataInputs(session) }

(***************************************************************************)
(* The state machine.                                                      *)
(***************************************************************************)
\* The handshake state, as the operations above read and change it, in a task
\* in which the caller's callback throws (cbThrows) or returns when invoked.
S(cbThrows) ==
  [cfg |-> cfg, agegateway_session |-> agegateway_session, include |-> include,
   popup |-> popup, done |-> done, processing |-> processing, aborted |-> aborted,
   pollId |-> pollId, timeoutId |-> timeoutId, listening |-> listening,
   activeTimers |-> activeTimers, popupClosed |-> popupClosed,
   activations |-> activations, fetches |-> fetches, calls |-> calls,
   escaped |-> escaped, lastReturn |-> lastReturn, cbThrows |-> cbThrows,
   threw |-> FALSE]

Commit(s) ==
  /\ popup' = s.popup
  /\ done' = s.done
  /\ processing' = s.processing
  /\ aborted' = s.aborted
  /\ pollId' = s.pollId
  /\ timeoutId' = s.timeoutId
  /\ listening' = s.listening
  /\ activeTimers' = s.activeTimers
  /\ popupClosed' = s.popupClosed
  /\ activations' = s.activations
  /\ fetches' = s.fetches
  /\ calls' = s.calls
  /\ escaped' = s.escaped
  /\ lastReturn' = s.lastReturn
  /\ UNCHANGED << cfg, agegateway_session, include >>

\* A page that never calls launchAgeGate.
NoLaunchConfig ==
  [session |-> Undefined, include |-> NotArray, backendVerifyUrl |-> NonStringUrl,
   backendVerifyAllowCrossOrigin |-> FALSE, backendVerifyAllowedOrigins |-> <<>>,
   timeoutMs |-> Null, requireNoReferrer |-> FALSE, allowFullPageFallback |-> FALSE]

\* Before launchAgeGate is called.
Idle ==
  /\ lpc = "idle"
  /\ agegateway_session = <<>>
  /\ include = NoInclude
  /\ childUrl = NoUrl
  /\ popup = NoWindow
  /\ done = FALSE
  /\ processing = FALSE
  /\ aborted = FALSE
  /\ pollId = 0
  /\ timeoutId = 0
  /\ listening = FALSE
  /\ activeTimers = {}
  /\ popupClosed = FALSE
  /\ location = "page"
  /\ activations = <<>>
  /\ fetches = <<>>
  /\ calls = <<>>
  /\ escaped = <<>>
  /\ warned = FALSE
  /\ lastReturn = "none"
  /\ peer = [lpc |-> "idle", cfg |-> NoLaunchConfig, agegateway_session |-> <<>>,
             include |-> NoInclude, popup |-> NoWindow, done |-> FALSE,
             processing |-> FALSE, aborted |-> FALSE, pollId |-> 0, timeoutId |-> 0,
             listening |-> FALSE, activeTimers |-> {}, popupClosed |-> FALSE,
             activations |-> <<>>, fetches |-> <<>>, calls |-> <<>>,
             escaped |-> <<>>, lastReturn |-> "none", cbThrows |-> FALSE,
             threw |-> FALSE]

\* A page about to call launchAgeGate with one of `configs`.
Launches(configs) ==
  /\ cfg \in configs
  /\ Idle
  /\ fn = "none"
  /\ arg = <<>>
  /\ ret = <<>>

Init == Launches(Configs)

\* The launches whose options vary in what the message handler reads: the
\* session, the backend and the referrer precondition.
HandshakeConfigs ==
  { c \in Configs :
      /\ c.session \in { Undefined, Str(<<" ">> \o UuidA \o <<" ">>) }
      /\ c.include # NotArray
      /\ c.timeoutMs = Num(120000)
      /\ ~c.allowFullPageFallback }

\* The same launches, and those with a backend URL the policy refuses for
\* each of its other reasons.
BackendConfigs ==
  LET RefusedBackendInputs ==
        { [url |-> InvalidUrl, allowCrossOrigin |-> FALSE, allowedOrigins |-> <<>>],
          [url |-> AbsUrl("https:", "api.example", "/verify"), allowCrossOrigin |-> TRUE,
           allowedOrigins |-> << AbsUrl("https:", "other.example", "") >>],
          [url |-> AbsUrl("http:", "api.example", "/verify"), allowCrossOrigin |-> TRUE,
           allowedOrigins |-> << AbsUrl("http:", "api.example", "") >>] }
  IN
    HandshakeConfigs \cup
    { [c EXCEPT !.backendVerifyUrl = b.url,
                !.backendVerifyAllowCrossOrigin = b.allowCrossOrigin,
                !.backendVerifyAllowedOrigins = b.allowedOrigins] :
        c \in { h \in HandshakeConfigs : h.backendVerifyUrl = NonStringUrl },
        b \in RefusedBackendInputs }

\* launchAgeGate returning at the missing referrer policy without a callback
LaunchRefusedSilently ==
  /\ lpc = "idle"
  /\ cfg.requireNoReferrer
  /\ Commit(S(FALSE))
  /\ lpc' = "refused"
  /\ UNCHANGED << childUrl, location, warned >>
  /\ UNCHANGED callVars

\* launchAgeGate: the required referrer policy is missing
LaunchRefused ==
  /\ lpc = "idle"
  /\ cfg.requireNoReferrer
  /\ \E th \in BOOLEAN :
       Commit(Escape(safeCallback(S(th), "onFailure",
         FailureArgs(Err("Missing required meta referrer=no-referrer")))))
  /\ lpc' = "refused"
  /\ UNCHANGED << childUrl, location, warned >>
  /\ UNCHANGED callVars

\* launchAgeGate past the referrer check, on a host where the meta tag is
\* present or not, with the given crypto, where window.open yields `opened`
LaunchProceeds(metaPresent, crypto, opened) ==
  /\ lpc = "idle"
  /\ metaPresent \/ ~cfg.requireNoReferrer
  /\ warned' = ~metaPresent
  /\ UNCHANGED callVars
  /\ \E r \in normalizeSession(cfg.session, crypto) :
       IF r.threw
         THEN /\ lpc' = "threw"
              /\ Commit([S(FALSE) EXCEPT !.escaped =
                    Append(@, Err("crypto.getRandomValues is required for UUID generation"))])
              /\ UNCHANGED << childUrl, location >>
         ELSE
           LET inc == sanitizeInclude(cfg.include)
               url == makeVerifyUrl(r.val, inc)
               s0(th) == [S(th) EXCEPT !.agegateway_session = r.val, !.include = inc]
           IN  /\ agegateway_session' = r.val
               /\ include' = inc
               /\ childUrl' = url
               /\ cfg' = cfg
               /\ lastReturn' = lastReturn
               /\ IF ~opened
                    THEN IF cfg.allowFullPageFallback
                      THEN /\ lpc' = "navigated"
                           /\ location' = "verify"
                           /\ UNCHANGED << popup, done, processing, aborted, pollId,
                                           timeoutId, listening, activeTimers, popupClosed,
                                           activations, fetches, calls, escaped >>
                      ELSE /\ lpc' = "blocked"
                           /\ location' = location
                           /\ \E th \in BOOLEAN :
                                LET s1 == Escape(safeCallback(s0(th), "onFailure",
                                     FailureArgs(Err("Popup blocked and fallback disabled"))))
                                IN  /\ calls' = s1.calls
                                    /\ escaped' = s1.escaped
                           /\ UNCHANGED << popup, done, processing, aborted, pollId,
                                           timeoutId, listening, activeTimers, popupClosed,
                                           activations, fetches >>
                    ELSE /\ lpc' = "opened"
                         /\ location' = location
                         /\ popup' = PopupWin
                         /\ listening' = TRUE
                         /\ pollId' = PollHandle
                         /\ timeoutId' = IF TimeoutArmed(cfg) THEN TimeoutHandle ELSE 0
                         /\ activeTimers' = {PollHandle} \cup
                              (IF TimeoutArmed(cfg) THEN {TimeoutHandle} ELSE {})
                         /\ UNCHANGED << done, processing, aborted, popupClosed,
                                         activations, fetches, calls, escaped >>

Launch ==
  \/ \E metaPresent \in {FALSE} : ~metaPresent /\ LaunchRefused
  \/ \E metaPresent \in BOOLEAN, crypto \in CryptoKinds, opened \in BOOLEAN :
       LaunchProceeds(metaPresent, crypto, opened)

\* The host dispatches the message event e to the registered handler.
Dispatch(e) ==
  /\ listening
  /\ \E th \in (IF handlerBusy(S(FALSE)) \/ ~handlerAccepts(S(FALSE), e)
                   THEN {FALSE} ELSE BOOLEAN) :
       Commit(handler(S(th), e))
  /\ UNCHANGED << lpc, childUrl, location, warned >>
  /\ UNCHANGED callVars

\* A window posts a message to the page.
Message == \E e \in Messages(agegateway_session) : Dispatch(e)

\* The fetch of activation i settles: a response, a rejection, or the abort.
FetchSettles ==
  /\ \E i \in 1..Len(activations) :
       /\ activations[i].pc = "fetch"
       /\ \E out \in (IF aborted THEN {} ELSE Responses) \cup {NoResponse},
             th \in BOOLEAN :
            Commit(fetchSettled(S(th), i, out))
  /\ UNCHANGED << lpc, childUrl, location, warned >>
  /\ UNCHANGED callVars

\* res.text() of activation i settles.
TextSettles ==
  /\ \E i \in 1..Len(activations) :
       /\ activations[i].pc = "text"
       /\ \E th \in BOOLEAN : Commit(textSettled(S(th), i))
  /\ UNCHANGED << lpc, childUrl, location, warned >>
  /\ UNCHANGED callVars

\* res.json() of activation i settles, with a value or with a rejection.
JsonSettles ==
  /\ \E i \in 1..Len(activations) :
       /\ activations[i].pc = "json"
       /\ \E th \in BOOLEAN : Commit(jsonSettled(S(th), i))
  /\ UNCHANGED << lpc, childUrl, location, warned >>
  /\ UNCHANGED callVars

\* The interval timer runs its callback.
PollTick ==
  /\ pollId # 0 /\ pollId \in activeTimers
  /\ Commit(pollTick(S(FALSE)))
  /\ UNCHANGED << lpc, childUrl, location, warned >>
  /\ UNCHANGED callVars

\* The one-shot timer runs its callback.
TimeoutFires ==
  /\ timeoutId # 0 /\ timeoutId \in activeTimers
  /\ \E th \in BOOLEAN :
       Commit(timeoutFired([S(th) EXCEPT !.activeTimers = @ \ {timeoutId}]))
  /\ UNCHANGED << lpc, childUrl, location, warned >>
  /\ UNCHANGED callVars

\* The user closes the popup (or it closes itself).
PopupCloses ==
  /\ popup # NoWindow /\ ~popupClosed
  /\ popupClosed' = TRUE
  /\ UNCHANGED << cfg, lpc, agegateway_session, include, childUrl, popup, done,
                  processing, aborted, pollId, timeoutId, listening, activeTimers,
                  location, activations, fetches, calls, escaped, warned,
                  lastReturn >>
  /\ UNCHANGED callVars

Next ==
  \/ Launch
  \/ Message
  \/ FetchSettles
  \/ TextSettles
  \/ JsonSettles
  \/ PollTick
  \/ TimeoutFires
  \/ PopupCloses

Spec == Init /\ [][Next]_vars

\* The handshake, over the launches of HandshakeConfigs.
SpecHandshake == Launches(HandshakeConfigs) /\ [][Next]_vars

\* The handshake, over the launches of BackendConfigs.
SpecBackend == Launches(BackendConfigs) /\ [][Next]_vars

\* The handshake, over launches with each kind of timeoutMs: unset, null, a
\* string, NaN, Infinity, zero, negative and positive.
SpecTimeout ==
  /\ Launches({ [c EXCEPT !.timeoutMs = t] :
                  c \in { h \in HandshakeConfigs : h.session = Undefined },
                  t \in { Undefined, Null, Str(<<"1","0","0","0">>), NaN, Infinity,
                          Num(0), Num(-1), Num(120000) } })
  /\ [][Next]_vars

\* The closure of the second launch as its code reads it.  popup.closed is the
\* state of the window it holds, which is the first launch's when the two
\* hold the same window.
Peer ==
  [peer EXCEPT !.popupClosed = IF peer.popup = popup THEN popupClosed ELSE @]

\* What a task of the second launch leaves behind.
CommitPeer(p) ==
  /\ peer' = [p EXCEPT !.threw = FALSE]
  /\ popupClosed' = IF p.popup = popup THEN p.popupClosed ELSE popupClosed
  /\ UNCHANGED << cfg, lpc, agegateway_session, include, childUrl, popup, done,
                  processing, aborted, pollId, timeoutId, listening, activeTimers,
                  location, activations, fetches, calls, escaped, warned,
                  lastReturn, fn, arg, ret >>

\* The page calls launchAgeGate again, with the config c, while the first call
\* waits.  window.open is given the same window name, 'age-verify': the host
\* hands back the window of that name if it is still open, navigated to the
\* new URL, and opens a new one otherwise.  The session is drawn from other
\* random bytes than the first.
LaunchPeer ==
  /\ lpc = "opened" /\ ~done /\ peer.lpc = "idle"
  /\ \E c \in { h \in HandshakeConfigs :
                   h.backendVerifyUrl = cfg.backendVerifyUrl
                   /\ h.requireNoReferrer = cfg.requireNoReferrer } :
       \E r \in normalizeSession(c.session, "getRandomValues (other host)") :
         CommitPeer([peer EXCEPT
           !.lpc = "opened", !.cfg = c,
           !.agegateway_session = r.val,
           !.include = sanitizeInclude(c.include),
           !.popup = IF popupClosed THEN OtherWin ELSE PopupWin,
           !.popupClosed = IF popupClosed THEN FALSE ELSE popupClosed,
           !.listening = TRUE,
           !.pollId = PollHandle,
           !.timeoutId = IF TimeoutArmed(c) THEN TimeoutHandle ELSE 0,
           !.activeTimers = {PollHandle} \cup
                              (IF TimeoutArmed(c) THEN {TimeoutHandle} ELSE {})])

\* A window posts a message to the page: the host dispatches the event to the
\* handler of each launch that is registered, the first launch's first.
PairMessage ==
  /\ listening \/ peer.listening
  /\ \E w \in { PopupWin, OtherWin },
        se \in { agegateway_session, peer.agegateway_session } :
       LET e == [origin |-> CHILD_ORIGIN, source |-> w,
                 data |-> Data(GoodToken, Str(se), AuthResponse)]
           shared == peer.popup = popup
           s1 == IF listening THEN handler(S(FALSE), e) ELSE S(FALSE)
           p0 == [Peer EXCEPT !.popupClosed = IF shared THEN s1.popupClosed ELSE @]
           p1 == IF peer.listening THEN handler(p0, e) ELSE p0
       IN  /\ Commit([s1 EXCEPT !.popupClosed = IF shared THEN p1.popupClosed ELSE @])
           /\ peer' = p1
  /\ UNCHANGED << lpc, childUrl, location, warned, fn, arg, ret >>

\* A task of the second launch: its poll, its timeout, or the user closing
\* the window that only it holds.
PeerTask ==
  \/ /\ peer.pollId # 0 /\ peer.pollId \in peer.activeTimers
     /\ CommitPeer(pollTick(Peer))
  \/ /\ peer.timeoutId # 0 /\ peer.timeoutId \in peer.activeTimers
     /\ CommitPeer(timeoutFired([Peer EXCEPT !.activeTimers = @ \ {peer.timeoutId}]))
  \/ /\ peer.popup = OtherWin /\ ~peer.popupClosed
     /\ CommitPeer([Peer EXCEPT !.popupClosed = TRUE])

\* Two launches of one page, the second made while the first waits.
SpecPair ==
  /\ Launches({ h \in HandshakeConfigs : h.backendVerifyUrl = NonStringUrl })
  /\ [][\/ Launch
        \/ LaunchPeer
        \/ PairMessage
        \/ PollTick
        \/ TimeoutFires
        \/ PopupCloses
        \/ PeerTask]_vars

\* The handshake on a host that runs every timer callback that stays due and
\* settles every pending promise of fetch, res.text() and res.json().
SpecFair ==
  /\ SpecHandshake
  /\ WF_vars(TimeoutFires) /\ WF_vars(PollTick)
  /\ WF_vars(FetchSettles) /\ WF_vars(TextSettles) /\ WF_vars(JsonSettles)


\* The popup posts the credential's token or a large one: a gzip header and
\* 2012 runs of 255 hex digits in 5368 base64url digits, within both ceilings
\* of b64urlToBytes.
LargeMessage ==
  LET head == bytesToB64url(<< 31, 139, 255 >>)
      block == bytesToB64url(<< 51, 255, 51, 255, 51, 255 >>)
      LargeToken == head \o [i \in 1..((8 * 670) + 4) |-> block[((i - 1) % 8) + 1]]
  IN  \E tk \in { GoodToken, Str(LargeToken) } :
        Dispatch([origin |-> CHILD_ORIGIN, source |-> PopupWin,
                  data |-> Data(tk, Str(agegateway_session), AuthResponse)])

\* The handshake with tokens of that size.
SpecLarge ==
  /\ Launches({ c \in HandshakeConfigs : c.session = Undefined })
  /\ [][\/ Launch
        \/ LargeMessage
        \/ FetchSettles
        \/ TextSettles
        \/ JsonSettles
        \/ PollTick
        \/ TimeoutFires
        \/ PopupCloses]_vars

(***************************************************************************)
(* The functions of policy.js, called on their own.                        *)
(***************************************************************************)

ResolveInputs ==
  LET RawInputs ==
        { RelUrl("/api/verify"), EmptyUrl, InvalidUrl,
          AbsUrl("https:", "rp.example", "/api/verify"),
          AbsUrl("http:", "rp.example", "/api/verify"),
          AbsUrl("https:", "api.example", "/verify"),
          AbsUrl("http:", "api.example", "/verify") }
      OptsInputs ==
        { [pageHref |-> h, pageOrigin |-> o, allowCrossOrigin |-> x, allowedOrigins |-> l] :
            h \in { AbsUrl("https:", "rp.example", "/path"),
                    AbsUrl("http:", "rp.example", "/path"), EmptyUrl },
            o \in { << "https:", "rp.example" >>, << "http:", "rp.example" >>, <<>> },
            x \in BOOLEAN,
            l \in { <<>>,
                    << AbsUrl("https:", "api.example", "") >>,
                    << AbsUrl("http:", "api.example", "") >>,
                    << AbsUrl("https:", "other.example", ""), NonStringUrl, InvalidUrl,
                       RelUrl("/verify"), AbsUrl("https:", "api.example", "/any/path") >> } }
  IN  { [f |-> "resolveBackendVerifyUrl", raw |-> r, opts |-> o] :
          r \in RawInputs, o \in OptsInputs }

\* Session arguments: no strings, valid UUIDs in both cases, padded ones,
\* strings that are no UUID, and strings over the length limit.
SessionArguments ==
  LET UuidUpper == [i \in 1..36 |->
        CASE UuidB[i] = "a" -> "A" [] UuidB[i] = "b" -> "B" [] UuidB[i] = "d" -> "D"
          [] UuidB[i] = "e" -> "E" [] OTHER -> UuidB[i]]
  IN
    { Undefined, Null, Num(7), Obj(<<"session">>),
      Str(<<>>), Str(<<" ", " ">>),
      Str(UuidA), Str(UuidB), Str(UuidUpper),
      Str(<<" ">> \o UuidA \o <<"\n">>),
      Str(Repeat(" ", maxSessionLen - 36 + 1) \o UuidA),
      Str(<<"n","o","t","-","a","-","u","u","i","d">>),
      Str([UuidA EXCEPT ![15] = "0"]), Str([UuidA EXCEPT ![15] = "6"]),
      Str([UuidA EXCEPT ![20] = "7"]), Str([UuidA EXCEPT ![20] = "c"]),
      Str([UuidA EXCEPT ![9] = "0"]), Str([UuidA EXCEPT ![1] = "g"]),
      Str(UuidA \o <<"0">>), Str(SubSeq(UuidA, 1, 35)),
      Str(Repeat("a", maxSessionLen)), Str(Repeat("a", maxSessionLen + 1)) }

NormalizeInputs ==
  { [f |-> "normalizeSession", v |-> v, crypto |-> c] :
      v \in SessionArguments, c \in CryptoHosts }

\* Include arguments: every array of up to three entries of IncludeEntries,
\* and longer arrays around the limit of maxIncludeItems entries.
IncludeArguments ==
  LET IncludeEntries ==
        { Str(<<"a">>), Str(<<" ", "a", "\t">>), Str(<<"b">>), Str(<<>>), Str(<<" ">>),
          Num(1), Str(Repeat("x", maxIncludeItemLen + 1)) }
      Letters == <<"a","b","c","d","e","f","g","h","i","j","k","l">>
      LetterEntries(k) == [i \in 1..k |-> Str(<< Letters[i] >>)]
      Doubled(s) == [i \in 1..(2 * Len(s)) |-> s[(i + 1) \div 2]]
  IN
    { NotArray }
    \cup { Array(<<>>) }
    \cup { Array(<< x >>) : x \in IncludeEntries }
    \cup { Array(<< x, y >>) : x \in IncludeEntries, y \in IncludeEntries }
    \cup { Array(<< x, y, z >>) :
             x \in IncludeEntries, y \in IncludeEntries, z \in IncludeEntries }
    \cup { Array(LetterEntries(k)) : k \in (maxIncludeItems - 1)..(maxIncludeItems + 2) }
    \cup { Array(Doubled(LetterEntries(maxIncludeItems + 1))),
           Array(LetterEntries(maxIncludeItems - 1)
                   \o << Num(0), Str(<<>>), Str(<<"a">>), Str(<<" ", "k", " ">>),
                         Str(<<"l">>) >>),
           Array(<< Str(Repeat("x", maxIncludeItemLen)),
                    Str(<<" ">> \o Repeat("x", maxIncludeItemLen) \o <<" ">>),
                    Str(Repeat("x", maxIncludeItemLen - 1) \o <<" ", "x">>),
                    Str(<<"A">>), Str(<<"a">>), Null, Undefined >>) }
    \cup { a \in IncludeInputs : a.isArray }

SanitizeInputs == { [f |-> "sanitizeInclude", v |-> v] : v \in IncludeArguments }

PolicyInputs == ResolveInputs \cup NormalizeInputs \cup SanitizeInputs

\* A page about to call an exported function on one of `inputs`.
Calls(inputs) ==
  /\ cfg = NoLaunchConfig
  /\ Idle
  /\ fn = "none"
  /\ arg \in inputs
  /\ ret = <<>>

CallResolveBackendVerifyUrl ==
  /\ fn = "none" /\ arg.f = "resolveBackendVerifyUrl"
  /\ fn' = arg.f
  /\ ret' = resolveBackendVerifyUrl(arg.raw, arg.opts)
  /\ UNCHANGED << arg, ctlVars, lastReturn, peer >>

CallNormalizeSession ==
  /\ fn = "none" /\ arg.f = "normalizeSession"
  /\ fn' = arg.f
  /\ ret' \in normalizeSession(arg.v, arg.crypto)
  /\ UNCHANGED << arg, ctlVars, lastReturn, peer >>

CallSanitizeInclude ==
  /\ fn = "none" /\ arg.f = "sanitizeInclude"
  /\ fn' = arg.f
  /\ ret' = sanitizeInclude(arg.v)
  /\ UNCHANGED << arg, ctlVars, lastReturn, peer >>

SpecPolicy ==
  /\ Calls(PolicyInputs)
  /\ [][\/ CallSanitizeInclude
        \/ CallResolveBackendVerifyUrl
        \/ CallNormalizeSession]_vars

(***************************************************************************)
(* The functions of token.js, called on their own, with limits of their    *)
(* own (the `limits` argument).                                            *)
(***************************************************************************)
MaxTokenLen == 5
MaxHexLen == 6
MaxCredentialLen == 3

\* Every string over the characters of `alphabet` of at most n characters.
RECURSIVE Strings(_, _)
Strings(alphabet, n) ==
  IF n = 0 THEN { <<>> }
  ELSE LET shorter == Strings(alphabet, n - 1)
       IN  shorter \cup { Append(s, c) : s \in { t \in shorter : Len(t) = n - 1 },
                                         c \in alphabet }

NonStrings == { Undefined, Null, Num(7) }

\* Tokens of up to MaxTokenLen characters, under character ceilings they pass
\* and exceed and byte ceilings their bytes pass and exceed, and under the
\* default limits; and under the default limits four tokens of digits, of two
\* characters below the default character ceiling to one above it.
B64urlInputs ==
  LET TokenLimits ==
        { [maxTokenB64urlChars |-> c, maxGzipBytes |-> b, maxInflatedChars |-> maxInflatedChars] :
            c \in { MaxTokenLen - 2, MaxTokenLen - 1 }, b \in { 2, maxGzipBytes } }
  IN
    { [f |-> "b64urlToBytes", v |-> v, lim |-> l] :
        v \in NonStrings \cup
              { Str(s) : s \in Strings({"Q", "_", "*", "=", " "}, MaxTokenLen) },
        l \in TokenLimits \cup { DEFAULT_LIMITS } }
    \cup
    { [f |-> "b64urlToBytes",
       v |-> Str(Repeat("Q", maxTokenB64urlChars - 4)
                   \o SubSeq(<<"_", "Q", "_", "Q", "_">>, 1, k)),
       lim |-> DEFAULT_LIMITS] : k \in 2..5 }

HexInputs ==
  LET HexLimits ==
        { [maxTokenB64urlChars |-> maxTokenB64urlChars, maxGzipBytes |-> maxGzipBytes,
           maxInflatedChars |-> c] : c \in { MaxHexLen - 4, MaxHexLen - 2, MaxHexLen - 1 } }
  IN
    { [f |-> "hexToUtf8String", v |-> v, lim |-> l] :
        v \in NonStrings \cup
              { Str(s) : s \in Strings({"4", "a", "F", "g"}, MaxHexLen) },
        l \in HexLimits }

\* Credentials: every string of up to MaxCredentialLen characters, the
\* credential of the handshake, and two whose hex form is a long run (the
\* second one a run that the compressed form splits).
RoundTripInputs ==
  LET Credentials ==
        (Strings({"a", ".", "~", " ", "3"}, MaxCredentialLen) \ { <<>> })
        \cup { Credential, Repeat("3", MaxRun \div 2), Repeat("3", (MaxRun \div 2) + 3) }
      RoundTripLimits ==
        { DEFAULT_LIMITS,
          [maxTokenB64urlChars |-> 12, maxGzipBytes |-> 8, maxInflatedChars |-> 4] }
  IN
    { [f |-> "roundTrip", jwt |-> j, lim |-> l] : j \in Credentials, l \in RoundTripLimits }

\* b64urlToBytes, pako.ungzip and hexToUtf8String in turn, as the handler and
\* the tests call them
DecodePipeline(token, lim) ==
  LET gz == b64urlToBytes(token, lim)
      hex == ungzip(gz.val)
      jwt == hexToUtf8String(Str(hex.val), lim)
  IN  IF gz.threw THEN gz
      ELSE IF hex.threw THEN hex
      ELSE jwt

CallB64urlToBytes ==
  /\ fn = "none" /\ arg.f = "b64urlToBytes"
  /\ fn' = arg.f
  /\ ret' = b64urlToBytes(arg.v, arg.lim)
  /\ UNCHANGED << arg, ctlVars, lastReturn, peer >>

CallHexToUtf8String ==
  /\ fn = "none" /\ arg.f = "hexToUtf8String"
  /\ fn' = arg.f
  /\ ret' = hexToUtf8String(arg.v, arg.lim)
  /\ UNCHANGED << arg, ctlVars, lastReturn, peer >>

\* The issuer encodes the credential, the page decodes the token.
CallRoundTrip ==
  /\ fn = "none" /\ arg.f = "roundTrip"
  /\ fn' = arg.f
  /\ ret' = DecodePipeline(Str(EncodeToken(arg.jwt)), arg.lim)
  /\ UNCHANGED << arg, ctlVars, lastReturn, peer >>

SpecToken ==
  /\ Calls(B64urlInputs \cup HexInputs \cup RoundTripInputs)
  /\ [][\/ CallB64urlToBytes
        \/ CallHexToUtf8String
        \/ CallRoundTrip]_vars

(***************************************************************************)
(* The claims.                                                             *)
(***************************************************************************)
SuccessCalls == { i \in 1..Len(calls) : calls[i].cb = "onSuccess" }
FailureCalls == { i \in 1..Len(calls) : calls[i].cb = "onFailure" }
InFlight == { k \in 1..Len(activations) : activations[k].pc # "done" }
TimeoutMsg == "Timed out waiting for age verification"
TimeoutCall(c) == c.cb = "onFailure" /\ c.err.msg = TimeoutMsg

\* What survives a terminal transition: everything but the unwinding of a
\* handler invocation that was suspended when the transition was taken.
effectVars == << cfg, lpc, agegateway_session, include, childUrl, popup, done,
                 aborted, pollId, timeoutId, listening, activeTimers, popupClosed,
                 location, fetches, calls, escaped, warned >>

\* The message event e is what the specification asks of an acceptable message.
WellFormed(e) ==
  /\ e.origin = CHILD_ORIGIN
  /\ e.source = popup
  /\ e.data.t = "object"
  /\ e.data.session.t = "string" /\ e.data.session.v = agegateway_session
  /\ e.data.token.t = "string"
  /\ e.data.authenticationResponse.t = "object"

NoBackendUrl == cfg.backendVerifyUrl.kind \in {"nonstring", "empty"}

\* C1: onSuccess and onFailure are invoked at most once in total per launch,
\* and once the handshake is done no step invokes a callback again.
C1_AtMostOneCallback ==
  /\ [](Cardinality(SuccessCalls) + Cardinality(FailureCalls) <= 1)
  /\ [][done => calls' = calls]_vars

\* C1 witness: the timeout terminated the handshake while res.json() was
\* pending, and the handler then ran to its end without a second callback.
C1_Witness ==
  /\ Len(calls) = 1 /\ TimeoutCall(calls[1])
  /\ \E k \in 1..Len(activations) : activations[k].pc = "done" /\ activations[k].res.ok

\* Nothing of the launch can act any more.
Settled == lpc # "idle" /\ ~listening /\ activeTimers = {} /\ InFlight = {}

C3_SuccessOnlyFromValidMessage ==
  SuccessCalls # {} =>
    /\ activations # <<>>
    /\ \A k \in 1..Len(activations) : WellFormed(activations[k].e)
    /\ \A i \in SuccessCalls : \E k \in 1..Len(activations) :
         calls[i].payload.authenticationResponse =
           activations[k].e.data.authenticationResponse

\* C3 witness: onSuccess was invoked.
C3_Witness == SuccessCalls # {} /\ lpc = "opened"

\* C4: dispatching a message that fails the origin, source, session or shape
\* check changes nothing but the handler's return position: no callback, done
\* and processing, the listener, the timers, the signal and the popup are as
\* before, so the handler accepts a later valid message as it would have.
C4_IllFormedMessageIgnored ==
  [][\A e \in Messages(agegateway_session) :
       (~WellFormed(e) /\ Dispatch(e)) => (UNCHANGED ctlVars /\ lastReturn' # "none")]_vars

\* C4 witness: a message was ignored as invalid and a later one led to onSuccess.
C4_Witness == lastReturn = "invalid" /\ SuccessCalls # {}

\* C5: with no backend URL, a well-formed message carrying the credential's
\* token, dispatched while the handshake listens, makes exactly one call,
\* onSuccess(credential, {include, session, authenticationResponse}, null); and
\* whenever such a message was accepted that call is the only one.
C5_Expected(c, e) ==
  /\ c.cb = "onSuccess"
  /\ c.jwt = Credential
  /\ c.payload = [include |-> include, agegateway_session |-> agegateway_session,
                  authenticationResponse |-> e.data.authenticationResponse]
  /\ c.backendResult = Null

C5_SuccessWithoutBackend ==
  /\ [][\A e \in Messages(agegateway_session) :
         (/\ NoBackendUrl /\ ~done /\ ~processing
          /\ WellFormed(e) /\ e.data.token = GoodToken /\ Dispatch(e))
         => (Len(calls') = 1 /\ C5_Expected(calls'[1], e))]_vars
  /\ [](\A k \in 1..Len(activations) :
         (activations[k].e.data.token = GoodToken /\ NoBackendUrl)
         => (Len(calls) = 1 /\ C5_Expected(calls[1], activations[k].e)))

\* C5 witness: onSuccess received the credential and null, with no backend URL.
C5_Witness ==
  /\ NoBackendUrl /\ Len(calls) = 1
  /\ calls[1].cb = "onSuccess" /\ calls[1].jwt = Credential
  /\ calls[1].backendResult = Null

\* The poll cleaned up after the popup closed with no message accepted.
QuietClosed ==
  /\ lpc = "opened" /\ activations = <<>>
  /\ ~listening /\ activeTimers = {} /\ aborted
  /\ calls = <<>>

\* C6: a poll tick that sees the popup closed before any message was accepted
\* detaches the listener, clears both timers and raises the abort signal, and
\* from then on no callback is invoked and no message is accepted.
C6_QuietClose ==
  /\ [][(PollTick /\ popupClosed /\ activations = <<>>) => QuietClosed']_vars
  /\ [][QuietClosed => QuietClosed']_vars

\* C6 witness: the quiet close of a handshake that had armed a timeout.
C6_Witness == QuietClosed /\ timeoutId # 0 /\ popupClosed

\* C7: when the timeout timer fires, onFailure has been invoked exactly once,
\* with the timeout error, and no later step invokes a callback.
C7_Timeout ==
  /\ [][TimeoutFires => (Len(calls') = 1 /\ TimeoutCall(calls'[1]))]_vars
  /\ [][(calls # <<>> /\ TimeoutCall(calls[1])) => calls' = calls]_vars

\* C7 witness: the timeout fired while the fetch was pending, the fetch then
\* rejected and the handler ran to its end.
C7_Witness ==
  /\ Len(calls) = 1 /\ TimeoutCall(calls[1])
  /\ Len(fetches) = 1
  /\ \E k \in 1..Len(activations) : activations[k].pc = "done" /\ ~activations[k].res.ok

\* C8: a callback invoked by finishSuccess or finishFailure finds the signal
\* aborted, the listener detached, no timer active and the popup closed; and
\* once done, no step changes anything but the unwinding of a suspended handler
\* invocation (its position and the processing flag).
C8_CleanupBeforeCallback ==
  /\ [](lpc = "opened" =>
         \A i \in 1..Len(calls) :
           /\ calls[i].seen.done /\ calls[i].seen.aborted
           /\ ~calls[i].seen.listening /\ calls[i].seen.activeTimers = {}
           /\ calls[i].seen.popupClosed)
  /\ [][done => UNCHANGED effectVars]_vars

\* C8 witness: finishSuccess ran with the backend's result.
C8_Witness ==
  /\ lpc = "opened" /\ done /\ Len(calls) = 1
  /\ calls[1].cb = "onSuccess" /\ calls[1].backendResult = BackendJson

\* C9: at most one handler invocation is in flight, and a message dispatched
\* while processing is true is dropped: nothing changes, nothing is queued.
C9_Serialized ==
  /\ [](Cardinality(InFlight) <= 1)
  /\ [][\A e \in Messages(agegateway_session) :
         (processing /\ Dispatch(e)) => (UNCHANGED ctlVars /\ lastReturn' = "busy")]_vars

\* C9 witness: a message was dropped while another one was being processed.
C9_Witness == processing /\ lastReturn = "busy" /\ InFlight # {}

\* C10: an exception thrown by onSuccess or onFailure never leaves the
\* controller; the throwing call is the only call, and when it was made by a
\* terminal transition the handshake is done and cleaned up.
C10_CallbackExceptionContained ==
  /\ \A j \in 1..Len(escaped) : escaped[j] # CallbackError
  /\ \A i \in 1..Len(calls) :
       calls[i].threw =>
         /\ Len(calls) = 1
         /\ lpc = "opened" =>
              /\ done /\ aborted /\ ~listening /\ activeTimers = {} /\ popupClosed
              /\ calls[i].seen.aborted /\ ~calls[i].seen.listening
              /\ calls[i].seen.activeTimers = {}

\* C10 witness: onSuccess threw, and the handler has ended.
C10_Witness ==
  /\ Len(calls) = 1 /\ calls[1].cb = "onSuccess" /\ calls[1].threw
  /\ done /\ ~processing

(***************************************************************************)
(* resolveBackendVerifyUrl                                                 *)
(***************************************************************************)
Resolved == fn = "resolveBackendVerifyUrl"

\* What resolving arg.raw against arg.opts.pageHref gives, where it gives a URL.
Resolvable ==
  \/ arg.raw.kind = "abs"
  \/ arg.raw.kind \in {"rel", "empty"} /\ arg.opts.pageHref.kind = "abs"
Resolution ==
  IF arg.raw.kind = "abs" THEN arg.raw
  ELSE [kind |-> "abs", scheme |-> arg.opts.pageHref.scheme,
        host |-> arg.opts.pageHref.host,
        path |-> IF arg.raw.kind = "rel" THEN arg.raw.path ELSE arg.opts.pageHref.path]
SameOrigin == << Resolution.scheme, Resolution.host >> = arg.opts.pageOrigin
OnAllowList ==
  \E i \in 1..Len(arg.opts.allowedOrigins) :
    /\ arg.opts.allowedOrigins[i].kind = "abs"
    /\ arg.opts.allowedOrigins[i].scheme = Resolution.scheme
    /\ arg.opts.allowedOrigins[i].host = Resolution.host

\* C11 as stated, for non-empty pageHref and pageOrigin: the call returns
\* exactly when the resolved origin is pageOrigin, or cross-origin is opted in,
\* allowlisted and https; and what it returns is the input resolved against
\* pageHref.
C11_ReturnsIffAllowed ==
  (Resolved /\ arg.opts.pageHref.kind # "empty" /\ arg.opts.pageOrigin # <<>>) =>
    /\ ~ret.threw <=>
         /\ Resolvable
         /\ \/ SameOrigin
            \/ (arg.opts.allowCrossOrigin /\ OnAllowList /\ Resolution.scheme = "https:")
    /\ ~ret.threw => ret.url = Resolution

\* C11 amended: with pageHref and pageOrigin non-empty and the input
\* resolvable, the call returns exactly when the resolved origin is pageOrigin
\* and the scheme is https or that of pageHref, or the origin differs and
\* cross-origin is opted in, allowlisted and https; otherwise, and for empty
\* pageHref or pageOrigin or an unresolvable input, it throws.  What it returns
\* is the input resolved against pageHref.
C11_ReturnsIffAllowedAndSchemeMatches ==
  Resolved =>
    /\ ~ret.threw <=>
         /\ arg.opts.pageHref.kind # "empty" /\ arg.opts.pageOrigin # <<>>
         /\ Resolvable
         /\ \/ /\ SameOrigin
               /\ Resolution.scheme \in {"https:", arg.opts.pageHref.scheme}
            \/ /\ ~SameOrigin
               /\ arg.opts.allowCrossOrigin /\ OnAllowList
               /\ Resolution.scheme = "https:"
    /\ ~ret.threw => (ret.url = Resolution /\ ret.err = NoErr)
    /\ ret.threw => ret.err.isError

\* C11 witness: an input whose resolved origin is pageOrigin, refused for its
\* scheme.
C11_Witness ==
  /\ Resolved /\ SameOrigin /\ Resolvable
  /\ ret.threw /\ ret.err.msg = "backendVerifyUrl protocol mismatch"

(***************************************************************************)
(* The handshake's error paths                                             *)
(***************************************************************************)
\* What the URL policy says of the configured backend URL, in this page.
PagePolicy ==
  resolveBackendVerifyUrl(cfg.backendVerifyUrl,
    [pageHref |-> PageHref, pageOrigin |-> PageOrigin,
     allowCrossOrigin |-> cfg.backendVerifyAllowCrossOrigin,
     allowedOrigins |-> cfg.backendVerifyAllowedOrigins])
PolicyRefuses == ~NoBackendUrl /\ PagePolicy.threw

\* C12: when the URL policy refuses the configured backendVerifyUrl, no request
\* is ever handed to fetch and onSuccess is never invoked; the message that
\* reaches backend verification (well-formed, with a decodable token) ends the
\* handshake with exactly one call, onFailure with the policy's error.
C12_PolicyRefusalMakesNoRequest ==
  /\ [](PolicyRefuses => (fetches = <<>> /\ SuccessCalls = {}))
  /\ [][\A e \in Messages(agegateway_session) :
         (/\ PolicyRefuses /\ ~done /\ ~processing
          /\ WellFormed(e) /\ e.data.token = GoodToken /\ Dispatch(e))
         => (/\ Len(calls') = 1
             /\ calls'[1].cb = "onFailure" /\ calls'[1].err = PagePolicy.err
             /\ done' /\ ~processing' /\ fetches' = <<>>)]_vars

\* C12 witness: onFailure received the allowlist error and nothing was fetched.
C12_Witness ==
  /\ PolicyRefuses /\ fetches = <<>> /\ Len(calls) = 1
  /\ calls[1].err.msg = "backendVerifyUrl origin not in backendVerifyAllowedOrigins"

MissingReferrerMsg == "Missing required meta referrer=no-referrer"

\* C13: a launch that ends at the referrer check has requireNoReferrer set, has
\* made exactly one call, onFailure with the referrer error, and has opened no
\* window, registered no listener and no timer, and built no URL; a launch that
\* found the meta tag missing and went on (it warned) has requireNoReferrer
\* unset, made no referrer failure and went on to window.open with the
\* verification URL, unless session generation threw first.
C13_ReferrerPrecondition ==
  /\ lpc = "refused" =>
       /\ cfg.requireNoReferrer /\ ~warned
       /\ Len(calls) = 1
       /\ calls[1].cb = "onFailure" /\ calls[1].err.msg = MissingReferrerMsg
       /\ popup = NoWindow /\ ~listening
       /\ activeTimers = {} /\ pollId = 0 /\ timeoutId = 0
       /\ childUrl = NoUrl /\ location = "page" /\ fetches = <<>>
  /\ warned =>
       /\ ~cfg.requireNoReferrer
       /\ lpc \in {"opened", "blocked", "navigated", "threw"}
       /\ lpc # "threw" => childUrl.origin = CHILD_ORIGIN
       /\ \A i \in 1..Len(calls) : calls[i].err.msg # MissingReferrerMsg
  /\ (cfg.requireNoReferrer /\ lpc \notin {"idle", "refused"}) => ~warned

\* C13 witness: the launch was refused, and the onFailure it called threw.
C13_Witness ==
  lpc = "refused" /\ Len(calls) = 1 /\ calls[1].threw /\ escaped = <<>>

PopupBlockedMsg == "Popup blocked and fallback disabled"
NothingRegistered ==
  /\ popup = NoWindow /\ ~listening
  /\ activeTimers = {} /\ pollId = 0 /\ timeoutId = 0
  /\ activations = <<>> /\ fetches = <<>>

\* C14: when window.open yields no window, the launch either navigates the page
\* to the verification URL (allowFullPageFallback) and never invokes a callback,
\* or invokes onFailure exactly once with the popup error and leaves the page
\* where it is; in both cases no listener, poll or timeout is registered, then
\* or later.  A launch that got a window keeps it and leaves the page where it is.
C14_PopupBlocked ==
  /\ lpc = "navigated" =>
       /\ cfg.allowFullPageFallback
       /\ location = "verify"
       /\ childUrl.origin = CHILD_ORIGIN /\ childUrl.page = VERIFY_PAGE
       /\ calls = <<>> /\ escaped = <<>>
       /\ NothingRegistered
  /\ lpc = "blocked" =>
       /\ ~cfg.allowFullPageFallback
       /\ location = "page"
       /\ Len(calls) = 1
       /\ calls[1].cb = "onFailure" /\ calls[1].err.msg = PopupBlockedMsg
       /\ NothingRegistered
  /\ lpc = "opened" => (popup = PopupWin /\ location = "page")
  /\ \A i \in 1..Len(calls) : calls[i].err.msg = PopupBlockedMsg => lpc = "blocked"

\* C14 witness: the page was navigated although a timeout was configured.
C14_Witness ==
  /\ lpc = "navigated" /\ location = "verify" /\ calls = <<>>
  /\ TimeoutArmed(cfg) /\ activeTimers = {}

(***************************************************************************)
(* normalizeSession                                                        *)
(***************************************************************************)
Normalized == fn = "normalizeSession"

\* The UUID pattern: 8-4-4-4-12 hex digits of either case, the version digit
\* 1 to 5, the variant digit 8, 9, a or b.
MatchesUuidPattern(s) ==
  /\ Len(s) = 36
  /\ \A i \in {9, 14, 19, 24} : s[i] = "-"
  /\ s[15] \in {"1", "2", "3", "4", "5"}
  /\ s[20] \in {"8", "9", "a", "b", "A", "B"}
  /\ \A i \in (1..36) \ {9, 14, 15, 19, 20, 24} :
       s[i] \in {"0","1","2","3","4","5","6","7","8","9",
                 "a","b","c","d","e","f","A","B","C","D","E","F"}

ValidSessionArgument ==
  arg.v.t = "string" /\ MatchesUuidPattern(arg.v.v) /\ Len(arg.v.v) <= 64

\* C15: called with a string that matches the UUID pattern (of length at most
\* 64), normalizeSession returns that string, on every host; called with
\* anything else, what it returns matches the UUID pattern.
C15_NormalizeSessionValue ==
  Normalized =>
    /\ ValidSessionArgument => (~ret.threw /\ ret.val = arg.v.v)
    /\ (~ValidSessionArgument /\ ~ret.threw) => MatchesUuidPattern(ret.val)

\* C15 witness: an argument that is no UUID, on a host with getRandomValues
\* only, got a generated UUID.
C15_Witness ==
  /\ Normalized /\ ~ValidSessionArgument /\ arg.crypto = "getRandomValues (other host)"
  /\ arg.v.t = "string" /\ ~ret.threw /\ MatchesUuidPattern(ret.val)
  /\ ret.val # TrimEnd(TrimStart(arg.v.v))

HostHasCrypto == arg.crypto # "none"
TrimmedIsUuid ==
  arg.v.t = "string" /\ MatchesUuidPattern(TrimEnd(TrimStart(arg.v.v)))

Sanitized == fn = "sanitizeInclude"

\* The entries of the argument that are strings whose trimmed text has 1 to 32
\* characters, and among them those that are the first with their text.
TrimmedEntry(i) == TrimEnd(TrimStart(arg.v.items[i].v))
ValidEntries ==
  { i \in 1..Len(arg.v.items) :
      /\ arg.v.items[i].t = "string"
      /\ Len(TrimmedEntry(i)) >= 1 /\ Len(TrimmedEntry(i)) <= 32 }
FirstEntries ==
  { i \in ValidEntries : \A j \in ValidEntries : j < i => TrimmedEntry(j) # TrimmedEntry(i) }
NthFirstEntry(k) ==
  CHOOSE i \in FirstEntries : Cardinality({ j \in FirstEntries : j < i }) = k - 1

\* C17: sanitizeInclude returns undefined when its argument is no array or has
\* no valid entry; otherwise a list of at most 8 strings, pairwise distinct,
\* each non-empty, of at most 32 characters and without surrounding
\* whitespace: the trimmed texts of the first 8 distinct valid entries, in
\* their order of first occurrence.
C17_SanitizeInclude ==
  Sanitized =>
    /\ ~ret.defined <=> (~arg.v.isArray \/ FirstEntries = {})
    /\ ~ret.defined => ret.items = <<>>
    /\ ret.defined =>
         /\ Len(ret.items) >= 1 /\ Len(ret.items) <= 8
         /\ Len(ret.items) = IF Cardinality(FirstEntries) > 8 THEN 8
                             ELSE Cardinality(FirstEntries)
         /\ \A k \in 1..Len(ret.items) :
              /\ ret.items[k] = TrimmedEntry(NthFirstEntry(k))
              /\ Len(ret.items[k]) >= 1 /\ Len(ret.items[k]) <= 32
              /\ ret.items[k][1] \notin WhiteSpace
              /\ ret.items[k][Len(ret.items[k])] \notin WhiteSpace
              /\ \A m \in 1..Len(ret.items) : m # k => ret.items[m] # ret.items[k]

\* C17 witness: an argument with more than 8 distinct valid entries, each
\* given twice, was cut to 8.
C17_Witness ==
  /\ Sanitized /\ ret.defined /\ Len(ret.items) = 8
  /\ Cardinality(FirstEntries) > 8
  /\ Cardinality(ValidEntries) > Cardinality(FirstEntries)

(***************************************************************************)
(* The token codec                                                         *)
(***************************************************************************)
RoundTripped == fn = "roundTrip"

\* The hex form, the compressed form and the token of the credential are
\* within the limits the decoder was given.
WithinLimits ==
  /\ Len(utf8ToHex(arg.jwt)) <= arg.lim.maxInflatedChars
  /\ Len(gzip(utf8ToHex(arg.jwt))) <= arg.lim.maxGzipBytes
  /\ Len(EncodeToken(arg.jwt)) <= arg.lim.maxTokenB64urlChars

\* C18: a non-empty credential, hex-encoded, compressed and base64url-encoded
\* without padding, within the limits, comes back unchanged from
\* b64urlToBytes, ungzip and hexToUtf8String.
C18_RoundTrip ==
  (RoundTripped /\ arg.jwt # <<>> /\ WithinLimits) =>
    (~ret.threw /\ ret.val = arg.jwt)

\* C18 witness: a credential whose hex form has a run longer than one
\* compressed run, and whose token has a digit of the URL alphabet, came back.
C18_Witness ==
  /\ RoundTripped /\ WithinLimits /\ Len(arg.jwt) > MaxRun \div 2
  /\ \E i \in 1..Len(EncodeToken(arg.jwt)) : EncodeToken(arg.jwt)[i] \in {"-", "_"}
  /\ ~ret.threw /\ ret.val = arg.jwt

TokenDecoded == fn = "b64urlToBytes"
TokenIsString == arg.v.t = "string"
\* The token has a character that is no base64 digit of either alphabet, no
\* padding and no whitespace.
ForeignCharacter ==
  \E i \in 1..Len(arg.v.v) :
    arg.v.v[i] \notin (B64Chars \cup {"-", "_", "="} \cup AsciiWhitespace)
\* The token is base64url digits only and its length is none that base64 excludes.
PlainToken ==
  /\ TokenIsString /\ Len(arg.v.v) >= 1 /\ Len(arg.v.v) % 4 # 1
  /\ \A i \in 1..Len(arg.v.v) : arg.v.v[i] \in ((B64Chars \ {"+", "/"}) \cup {"-", "_"})
DecodedLength == (3 * Len(arg.v.v)) \div 4

HexDecoded == fn = "hexToUtf8String"
HexUpper == <<"0","1","2","3","4","5","6","7","8","9","A","B","C","D","E","F">>
IsHexDigit(c) == \E d \in 1..16 : c = HexLower[d] \/ c = HexUpper[d]
DigitValue(c) == (CHOOSE d \in 1..16 : c = HexLower[d] \/ c = HexUpper[d]) - 1
\* A non-empty string of hex digits of even length.
HexText ==
  /\ arg.v.t = "string" /\ Len(arg.v.v) >= 1 /\ Len(arg.v.v) % 2 = 0
  /\ \A i \in 1..Len(arg.v.v) : IsHexDigit(arg.v.v[i])
ByteAt(k) == (16 * DigitValue(arg.v.v[(2 * k) - 1])) + DigitValue(arg.v.v[2 * k])

\* C20: hexToUtf8String returns exactly when its argument is a non-empty string
\* of hex digits, of even length, no longer than the ceiling; it then returns
\* the text of the bytes the pairs name; such a string longer than the ceiling
\* throws the inflated-size error, and everything else throws too.
C20_HexToUtf8String ==
  HexDecoded =>
    /\ ~ret.threw <=> (HexText /\ Len(arg.v.v) <= arg.lim.maxInflatedChars)
    /\ ~ret.threw =>
         /\ Len(ret.val) = Len(arg.v.v) \div 2
         /\ \A k \in 1..Len(ret.val) :
              ret.val[k] = IF ByteAt(k) \in 32..126 THEN Chr(ByteAt(k)) ELSE Replacement
    /\ (HexText /\ Len(arg.v.v) > arg.lim.maxInflatedChars)
         => ret.msg = "inflated token too large"

\* C20 witness: hex text of exactly the ceiling, in both cases of the digits,
\* was decoded.
C20_Witness ==
  /\ HexDecoded /\ ~ret.threw /\ Len(arg.v.v) = arg.lim.maxInflatedChars
  /\ ret.val = << "J", "O" >>

(***************************************************************************)
(* The inflated string                                                     *)
(***************************************************************************)
\* C21: the string that decompression hands to the handler is never longer
\* than the inflated-character ceiling.
C21_InflationBounded ==
  \A i \in 1..Len(activations) : activations[i].hexLength <= maxInflatedChars

\* The response that activation i of the handler was given, once it has ended.
Answered(i) ==
  /\ i \in DOMAIN activations'
  /\ activations[i].pc \in {"fetch", "text", "json"}
  /\ activations'[i].pc = "done"
  /\ activations'[i].res # NoResponse
NewCall == calls'[Len(calls')]

C23_PollLeavesProcessingAlone ==
  [][(PollTick /\ processing /\ \E i \in InFlight : activations[i].pc = "fetch")
       => (aborted' = aborted)]_vars

\* The handler takes the message e up and, when its token does not decode,
\* ends the handshake with one onFailure carrying the decoder's error.
TakenUp(e) ==
  /\ Len(activations') = Len(activations) + 1
  /\ activations'[Len(activations')].e = e
  /\ decodeToken(e.data.token).threw =>
        /\ done'
        /\ Len(calls') = 1
        /\ NewCall.cb = "onFailure"
        /\ NewCall.err.msg = decodeToken(e.data.token).msg
EmptyToken(e) == e.data.token = Str(<<>>)

\* C24: a message with the issuer's origin, the popup as source, the session,
\* a string token and an object authenticationResponse, dispatched while the
\* handler is free, is taken up whatever the token holds, the empty string
\* included, and a token that fails to decode gives exactly one onFailure
\* with the decode error.
C24_StringTokenAccepted ==
  [][\A e \in Messages(agegateway_session) :
       (~done /\ ~processing /\ WellFormed(e) /\ Dispatch(e)) => TakenUp(e)]_vars

\* C24 as amended: the same for every non-empty string token, while a message
\* whose token is the empty string is ignored like an ill-formed one.
C24_NonEmptyTokenAccepted ==
  [][\A e \in Messages(agegateway_session) :
       (~done /\ ~processing /\ WellFormed(e) /\ Dispatch(e)) =>
          IF EmptyToken(e) THEN UNCHANGED ctlVars /\ lastReturn' = "invalid"
          ELSE TakenUp(e)]_vars

\* A token that is not base64url ended the handshake with the decoder's error.
C24_Witness ==
  /\ Len(calls) = 1 /\ calls[1].cb = "onFailure"
  /\ calls[1].err.msg = "invalid base64url"
  /\ \E k \in DOMAIN activations : activations[k].e.data.token = Str(<<"*","*">>)

\* C25: a handshake that opened the popup with a timeout armed eventually has
\* its listener detached and no timer left active.
C25_EventuallyCleanedUp ==
  (lpc = "opened" /\ TimeoutArmed(cfg)) ~> (~listening /\ activeTimers = {})

\* The timeout ended a handshake whose backend request was in flight.
C25_Witness ==
  /\ lpc = "opened" /\ TimeoutArmed(cfg)
  /\ ~listening /\ activeTimers = {}
  /\ fetches # <<>> /\ Len(calls) = 1 /\ TimeoutCall(calls[1])

\* timeoutMs is a finite number greater than zero.
FinitePositive == cfg.timeoutMs.t = "number" /\ cfg.timeoutMs.v = <<>> /\ cfg.timeoutMs.n > 0

\* C26: the timeout timer is armed only for a finite timeoutMs greater than
\* zero (and then it is, once the popup is opened); for any other timeoutMs
\* no timer but the poll is ever active and onFailure never carries the
\* timeout error, and as long as the popup stays open and no message is
\* accepted the handshake goes on listening, undecided.
C26_TimeoutOnlyWhenFinitePositive ==
  /\ [](timeoutId # 0 => FinitePositive)
  /\ []((FinitePositive /\ lpc = "opened") => timeoutId = TimeoutHandle)
  /\ [](~FinitePositive =>
          /\ TimeoutHandle \notin activeTimers
          /\ \A i \in FailureCalls : ~TimeoutCall(calls[i]))
  /\ [][(~FinitePositive /\ listening /\ ~popupClosed /\ activations' = <<>>)
          => (listening' /\ ~done' /\ calls' = <<>>)]_vars

\* Without a timeout, a message was ignored and the handshake still listens.
C26_Witness ==
  /\ ~FinitePositive /\ cfg.timeoutMs # Null
  /\ lpc = "opened" /\ listening /\ ~done /\ timeoutId = 0
  /\ lastReturn = "invalid" /\ activeTimers = {PollHandle}

\* The request was made for an accepted message whose token decoded.
RequestFollowsDecoding ==
  \E k \in DOMAIN activations :
    /\ WellFormed(activations[k].e)
    /\ ~decodeToken(activations[k].e.data.token).threw
    /\ fetches[1].jwt = decodeToken(activations[k].e.data.token).val

\* C27: a launch hands at most one request to fetch, only for an accepted
\* message whose token decoded, and once it has made a request it never
\* makes another, whatever the request's fate.
C27_AtMostOneRequest ==
  /\ [](Len(fetches) <= 1)
  /\ [](fetches # <<>> => RequestFollowsDecoding)
  /\ [][fetches # <<>> => fetches' = fetches]_vars

\* The one request was rejected and the handshake failed without another.
C27_Witness ==
  /\ Len(fetches) = 1 /\ InFlight = {}
  /\ Len(calls) = 1 /\ calls[1].cb = "onFailure"
  /\ calls[1].err.msg = "fetch rejected"

\* The session parameter of the URL the popup was opened with.
UrlSession == childUrl.query[1][2]

\* The payload p is the launch's session and include list with the
\* authenticationResponse of an accepted message.
LaunchPayload(p) ==
  /\ p.agegateway_session = UrlSession
  /\ p.include = sanitizeInclude(cfg.include)
  /\ \E k \in DOMAIN activations :
       /\ activations[k].e.data.session = Str(p.agegateway_session)
       /\ activations[k].e.data.authenticationResponse = p.authenticationResponse

\* C28: the payload given to onSuccess and the one sent to the backend carry
\* the session of the popup's URL, which the accepted message matched, the
\* include list sanitized at launch and the message's authenticationResponse;
\* and when a backend is configured onSuccess receives the credential and the
\* payload that were sent to it.
C28_PayloadAsLaunched ==
  /\ \A i \in SuccessCalls :
       /\ LaunchPayload(calls[i].payload)
       /\ BackendConfigured(cfg) =>
            /\ Len(fetches) = 1
            /\ fetches[1].jwt = calls[i].jwt
            /\ fetches[1].payload = calls[i].payload
  /\ \A j \in DOMAIN fetches : LaunchPayload(fetches[j].payload)

\* onSuccess after a backend answer, for a session given with blanks around
\* it and a non-empty include list.
C28_Witness ==
  /\ SuccessCalls # {} /\ fetches # <<>>
  /\ cfg.session # Undefined /\ Str(agegateway_session) # cfg.session
  /\ include.defined /\ Len(include.items) > 0

\* What the call returned is a UUID that occurs nowhere in its argument.
FreshUuid ==
  /\ MatchesUuidPattern(ret.val)
  /\ arg.v.t = "string" =>
        \A i \in 1..(Len(arg.v.v) - 35) : SubSeq(arg.v.v, i, i + 35) # ret.val

\* C29: when normalizeSession returns, it returns its argument if the
\* argument, exactly as given, is a UUID of at most 64 characters, and for
\* every other argument a generated UUID that is not taken from the argument.
C29_InputOnlyWhenValidAsGiven ==
  (Normalized /\ ~ret.threw) =>
    IF ValidSessionArgument THEN ret.val = arg.v.v ELSE FreshUuid

\* C29 as amended: it returns the argument without the white space around it
\* if that is a UUID, whatever the length of the argument as given, and for
\* every other argument a generated UUID that is not taken from the argument.
C29_TrimmedInputWhenValid ==
  (Normalized /\ ~ret.threw) =>
    IF TrimmedIsUuid THEN ret.val = TrimEnd(TrimStart(arg.v.v)) ELSE FreshUuid

\* An argument longer than the session limit, a UUID after leading blanks,
\* came back as that UUID.
C29_Witness ==
  /\ Normalized /\ ~ret.threw /\ arg.v.t = "string"
  /\ Len(arg.v.v) > maxSessionLen /\ TrimmedIsUuid
  /\ ret.val = UuidA /\ ret.val # arg.v.v

\* The window the second launch holds is closed.
PeerWindowClosed == IF peer.popup = popup THEN popupClosed ELSE peer.popupClosed

\* C30: of two launches that both wait, the step that ends one, with a
\* callback and the closing of its popup, leaves the other's popup open.
C30_LaunchesIsolated ==
  /\ [][(/\ ~done /\ done'
          /\ peer.lpc = "opened" /\ ~peer.done /\ peer' = peer
          /\ ~PeerWindowClosed) => ~PeerWindowClosed']_vars
  /\ [][(/\ ~peer.done /\ peer'.done
          /\ lpc = "opened" /\ ~done /\ ~done' /\ calls' = calls
          /\ ~popupClosed) => ~popupClosed']_vars

\* The first k entries of the launch's include list, with commas between.
RECURSIVE CommaJoined(_)
CommaJoined(k) ==
  IF k = 1 THEN include.items[1]
  ELSE CommaJoined(k - 1) \o <<",">> \o include.items[k]

\* C31: once launchAgeGate has built the popup's URL, the URL has the
\* issuer's origin and page, session as its first parameter, equal to the
\* session every accepted message was compared with, autostart=1 as its
\* second, and a third parameter exactly when the sanitized include list is
\* not empty: include, the entries of the list in order with commas between.
C31_ChildUrl ==
  childUrl # NoUrl =>
    /\ childUrl.origin = "https://agecheck.me" /\ childUrl.page = "verify.html"
    /\ childUrl.query[1] = <<"session", agegateway_session>>
    /\ \A k \in DOMAIN activations :
         activations[k].e.data.session = Str(childUrl.query[1][2])
    /\ childUrl.query[2] = <<"autostart", <<"1">> >>
    /\ include = sanitizeInclude(cfg.include)
    /\ IF include.defined /\ Len(include.items) > 0
         THEN /\ Len(childUrl.query) = 3
              /\ childUrl.query[3] = <<"include", CommaJoined(Len(include.items))>>
         ELSE Len(childUrl.query) = 2

\* A message was accepted by a launch whose URL names two include entries.
C31_Witness ==
  /\ lpc = "opened" /\ activations # <<>>
  /\ Len(childUrl.query) = 3 /\ Len(include.items) = 2
  /\ childUrl.query[3][2] = <<"l","o","a",",","s","e","s","s","i","o","n">>

\* The call was given a URL of another origin than the page's.
CrossOrigin ==
  /\ Resolved /\ arg.opts.pageHref.kind # "empty" /\ arg.opts.pageOrigin # <<>>
  /\ Resolvable /\ ~SameOrigin
HttpsMsg == "backendVerifyUrl must be https"

\* C32: for a URL of another origin, resolveBackendVerifyUrl throws the
\* same-origin error whenever cross-origin is not opted in, the allowlist
\* error whenever it is opted in and the origin is not on the list, and the
\* https error exactly when it is opted in, the origin is on the list and the
\* scheme is not https.
C32_ErrorPrecedence ==
  CrossOrigin =>
    /\ ~arg.opts.allowCrossOrigin =>
          (ret.threw /\ ret.err.msg = "backendVerifyUrl must be same-origin by default")
    /\ (arg.opts.allowCrossOrigin /\ ~OnAllowList) =>
          (ret.threw /\ ret.err.msg = "backendVerifyUrl origin not in backendVerifyAllowedOrigins")
    /\ (ret.threw /\ ret.err.msg = HttpsMsg) <=>
          (arg.opts.allowCrossOrigin /\ OnAllowList /\ Resolution.scheme # "https:")

\* An http URL of an allowlisted origin, opted in, was refused for its scheme.
C32_Witness ==
  /\ CrossOrigin /\ arg.opts.allowCrossOrigin /\ OnAllowList
  /\ Resolution.scheme = "http:" /\ ret.threw /\ ret.err.msg = HttpsMsg

\* C33: a launch accepts at most one message: the handler's invocation for
\* an accepted message ends, and processing returns to false, only with done
\* already true, and no second invocation ever passes the guards.
C33_OneMessagePerLaunch ==
  /\ [](Len(activations) <= 1)
  /\ [](\A k \in DOMAIN activations : activations[k].pc = "done" => done)
  /\ [][(processing /\ ~processing') => done']_vars
  /\ [][activations # <<>> => Len(activations') = Len(activations)]_vars

\* The handler's one invocation ended with a failure of the backend request.
C33_Witness ==
  /\ Len(activations) = 1 /\ activations[1].pc = "done"
  /\ ~processing /\ done /\ ~listening
  /\ Len(fetches) = 1 /\ FailureCalls = {1}

\* What sanitizeInclude returned, as the argument of a second call.
ReturnedList ==
  IF ret.defined THEN Array([i \in 1..Len(ret.items) |-> Str(ret.items[i])])
  ELSE NotArray

\* C34: sanitizeInclude applied to what sanitizeInclude returned gives that
\* same result, for every argument.
C34_SanitizeIdempotent ==
  Sanitized => sanitizeInclude(ReturnedList) = ret

\* A call whose result differs from its argument: entries were trimmed and
\* dropped, and two remain.
C34_Witness ==
  /\ Sanitized /\ ret.defined /\ Len(ret.items) = 2
  /\ Len(arg.v.items) > 2
  /\ \E i \in 1..Len(arg.v.items) :
       arg.v.items[i].t = "string" /\ Trim(arg.v.items[i].v) # arg.v.items[i].v

CeilingMsg == "compressed token too large"

\* C35: b64urlToBytes never returns more than three bytes for four characters
\* of the token, so it throws the byte-ceiling error only under limits whose
\* byte ceiling is below three quarters of the character ceiling; under the
\* default limits it never throws it, and what it returns has at most 48,000
\* bytes.
C35_ByteCeilingUnreachable ==
  TokenDecoded =>
    /\ ~ret.threw => Len(ret.val) <= (3 * Len(arg.v.v)) \div 4
    /\ (ret.threw /\ ret.msg = CeilingMsg) =>
          arg.lim.maxGzipBytes < (3 * arg.lim.maxTokenB64urlChars) \div 4
    /\ arg.lim = DEFAULT_LIMITS =>
          /\ ~(ret.threw /\ ret.msg = CeilingMsg)
          /\ ~ret.threw => Len(ret.val) <= 48000

\* Under the default limits, a token of exactly 64,000 digits was decoded to
\* 48,000 bytes.
C35_Witness ==
  /\ TokenDecoded /\ arg.lim = DEFAULT_LIMITS
  /\ Len(arg.v.v) = 64000 /\ ~ret.threw /\ Len(ret.val) = 48000

====
